---------------------------- MODULE Spec2Model ----------------------------
(***************************************************************************)
(* Model of the catalog server (server.js + server-security.js) and of the *)
(* admin session handling of the browser client (src/App.tsx).             *)
(*                                                                         *)
(* Strings are sequences of one-character strings, so that prefix tests,   *)
(* truncation, character filtering and pattern matching are computed the   *)
(* way the JavaScript computes them.  Time is in milliseconds.             *)
(***************************************************************************)
EXTENDS Integers, Sequences, FiniteSets, TLC

VARIABLES
    config,         \* process.env: ADMIN_SECRET, IP_WHITELIST, NODE_ENV
    started,        \* FALSE when the startup check called process.exit(1)
    now,            \* Date.now()
    store,          \* AdvancedRateLimiter.store : key -> record
    suspiciousIPs,  \* AdvancedRateLimiter.suspiciousIPs
    logs,           \* SecurityAuditLogger.logs
    files,          \* the file system: directory entries and file contents
    reqs,           \* every request received so far, with its position
    nextSweep,      \* when the limiter's setInterval fires next
    load,           \* the workload still to come (inputs and budgets)
    session,        \* the browser: localStorage, React state, pending effects
    call            \* a utility function applied on its own: argument, value

vars == <<config, started, now, store, suspiciousIPs, logs, files, reqs, nextSweep, load,
          session, call>>

serverVars == <<config, started, now, store, suspiciousIPs, logs, files, reqs, nextSweep, load>>

(***************************************************************************)
(* Strings                                                                 *)
(***************************************************************************)
Min(a, b) == IF a < b THEN a ELSE b

Max(a, b) == IF a > b THEN a ELSE b

\* s.substring(0, n) / s.slice(0, n)
Prefix(s, n) == SubSeq(s, 1, Min(n, Len(s)))

\* s.substring(n)
Suffix(s, n) == SubSeq(s, n + 1, Len(s))

\* s.startsWith(p)
StartsWith(s, p) == Len(s) >= Len(p) /\ SubSeq(s, 1, Len(p)) = p

\* s.endsWith(p)
EndsWith(s, p) == Len(s) >= Len(p) /\ SubSeq(s, Len(s) - Len(p) + 1, Len(s)) = p

\* a string of n copies of the character c
Repeat(c, n) == [i \in 1..n |-> c]

Lower == <<"a","b","c","d","e","f","g","h","i","j","k","l","m",
           "n","o","p","q","r","s","t","u","v","w","x","y","z">>

Upper == <<"A","B","C","D","E","F","G","H","I","J","K","L","M",
           "N","O","P","Q","R","S","T","U","V","W","X","Y","Z">>

Digits == <<"0","1","2","3","4","5","6","7","8","9">>

Range(s) == {s[i] : i \in DOMAIN s}

\* the characters the model's strings are written in, in code order
Alphabet == Digits \o Upper \o Lower \o <<" ", "!", "*", ",", "-", ".", "/", ":", "_">>

RECURSIVE IndexTable(_, _)
IndexTable(s, i) ==
    IF i > Len(s) THEN <<>> ELSE (s[i] :> i) @@ IndexTable(s, i + 1)

AlphabetIndex == IndexTable(Alphabet, 1)

\* a stand-in for charCodeAt: the position of the character in Alphabet
Code(c) == AlphabetIndex[c]

Unknown == <<"u","n","k","n","o","w","n">>


(***************************************************************************)
(* Requests.  A request is a record                                        *)
(*   [ip, ua, xff, auth, body, len]                                        *)
(* ip: req.ip; ua: the User-Agent header ("" when absent); xff: the        *)
(* X-Forwarded-For header ("" when absent); auth: the Authorization        *)
(* header ("" when absent); body: the parsed JSON body; len: the           *)
(* Content-Length header.                                                  *)
(***************************************************************************)
\* req.ip || req.connection.remoteAddress || 'unknown'
ReqIp(req) == IF req.ip # <<>> THEN req.ip ELSE Unknown

\* req.headers['user-agent'] || 'unknown'
ReqUserAgent(req) == IF req.ua # <<>> THEN req.ua ELSE Unknown

(***************************************************************************)
(* SecurityAuditLogger                                                     *)
(***************************************************************************)
maxLogs == 1000

\* details.ip || 'unknown'
DetailsIp(details) ==
    IF "ip" \in DOMAIN details /\ details.ip # <<>> THEN details.ip ELSE Unknown

\* a faulty variant of log: the oldest entry goes when the buffer is full
logShiftWhenFull(lg, event, details, t) ==
    LET logEntry == [timestamp |-> t, event |-> event, details |-> details,
                     ip |-> DetailsIp(details)]
        pushed == Append(lg, logEntry)
    IN  IF Len(pushed) >= maxLogs THEN Tail(pushed) ELSE pushed

\* log(event, details): push, then shift when longer than maxLogs
log(lg, event, details, t) ==
    LET logEntry == [timestamp |-> t, event |-> event, details |-> details,
                     ip |-> DetailsIp(details)]
        pushed == Append(lg, logEntry)
    IN  IF Len(pushed) > maxLogs THEN Tail(pushed) ELSE pushed

(***************************************************************************)
(* AdvancedRateLimiter                                                     *)
(***************************************************************************)
UaKeyLen == 50

KeepRequestsMs == 60000

RecentMs == 10000

RecentMax == 20

ClearGraceMs == 60000

\* Math.ceil(x / d)
CeilDiv(x, d) == -((-x) \div d)

\* getKey(req): `${ip}:${userAgent.substring(0, 50)}`
getKey(req) == ReqIp(req) \o <<":">> \o Prefix(ReqUserAgent(req), UaKeyLen)

\* the record check() stores for a key on its first request and on a reset
FreshRecord(t, windowMs, endpoint) ==
    [count |-> 1, resetTime |-> t + windowMs,
     requests |-> <<[time |-> t, endpoint |-> endpoint]>>, firstRequest |-> t]

\* a faulty variant of OverLimit: the request that reaches the limit is rejected
OverLimitAtLimit(count, maxRequests) == count >= maxRequests

\* the test that decides a rejection: record.count > maxRequests
OverLimit(count, maxRequests) == count > maxRequests

\* a faulty variant of WindowOver: the window lasts as long as the sweep's grace
WindowOverAfterGrace(t, record) == t > record.resetTime + ClearGraceMs

\* the test that starts a new window: now > record.resetTime
WindowOver(t, record) == t > record.resetTime

(* check(req, maxRequests, windowMs, endpoint) at time t.  st is the limiter
   with the audit logger: [store, suspiciousIPs, logs].  The value is the new
   st and the result returned to the caller. *)
check(st, req, maxRequests, windowMs, endpoint, t) ==
    LET key == getKey(req)
        ip == ReqIp(req)
    IN  IF key \notin DOMAIN st.store
        THEN [st |-> [st EXCEPT !.store =
                          [k \in DOMAIN st.store \cup {key} |->
                              IF k = key THEN FreshRecord(t, windowMs, endpoint)
                              ELSE st.store[k]]],
              res |-> [allowed |-> TRUE]]
        ELSE
        LET record == st.store[key] IN
        IF WindowOver(t, record)
        THEN [st |-> [st EXCEPT !.store[key] = FreshRecord(t, windowMs, endpoint)],
              res |-> [allowed |-> TRUE]]
        ELSE
        LET count == record.count + 1
            pushed == Append(record.requests, [time |-> t, endpoint |-> endpoint])
            kept == SelectSeq(pushed, LAMBDA r : t - r.time < KeepRequestsMs)
            rec2 == [record EXCEPT !.count = count, !.requests = kept]
            st2 == [st EXCEPT !.store[key] = rec2]
        IN  IF OverLimit(count, maxRequests)
            THEN [st |-> [st2 EXCEPT
                            !.suspiciousIPs = @ \cup {ip},
                            !.logs = log(@, "RATE_LIMIT_EXCEEDED",
                                         [ip |-> ip, endpoint |-> endpoint,
                                          count |-> count,
                                          maxRequests |-> maxRequests,
                                          userAgent |-> req.ua], t)],
                  res |-> [allowed |-> FALSE,
                           retryAfter |-> CeilDiv(record.resetTime - t, 1000),
                           reason |-> "rate"]]
            ELSE
            LET recentRequests == SelectSeq(kept, LAMBDA r : t - r.time < RecentMs)
            IN  [st |-> IF Len(recentRequests) > RecentMax
                        THEN [st2 EXCEPT !.logs =
                                 log(@, "SUSPICIOUS_ACTIVITY_DETECTED",
                                     [ip |-> ip, endpoint |-> endpoint,
                                      requestsIn10s |-> Len(recentRequests),
                                      userAgent |-> req.ua], t)]
                        ELSE st2,
                  res |-> [allowed |-> TRUE]]

\* isSuspicious(ip)
isSuspicious(sus, ip) == ip \in sus

\* a faulty variant of clear: an entry goes once its window expired 60 s ago
clearAtGrace(st0, t) ==
    LET keep == {k \in DOMAIN st0 : ~(t >= st0[k].resetTime + ClearGraceMs)}
    IN  [k \in keep |-> st0[k]]

\* a faulty variant of clear: the grace is taken off instead of added
clearOpenWindows(st0, t) ==
    LET keep == {k \in DOMAIN st0 : ~(t > st0[k].resetTime - ClearGraceMs)}
    IN  [k \in keep |-> st0[k]]

\* clear(): delete every entry with now > resetTime + 60000
clear(st0, t) ==
    LET keep == {k \in DOMAIN st0 : ~(t > st0[k].resetTime + ClearGraceMs)}
    IN  [k \in keep |-> st0[k]]

(***************************************************************************)
(* checkIPWhitelist                                                        *)
(***************************************************************************)
RECURSIVE TrimStart(_)
TrimStart(s) == IF s # <<>> /\ Head(s) = " " THEN TrimStart(Tail(s)) ELSE s

RECURSIVE TrimEnd(_)
TrimEnd(s) ==
    IF s # <<>> /\ s[Len(s)] = " " THEN TrimEnd(SubSeq(s, 1, Len(s) - 1)) ELSE s

\* s.trim()
Trim(s) == TrimEnd(TrimStart(s))

\* s.split(',')[0]
RECURSIVE FirstField(_)
FirstField(s) ==
    IF s = <<>> \/ Head(s) = "," THEN <<>> ELSE <<Head(s)>> \o FirstField(Tail(s))

(* new RegExp(`^${pattern}$`).test(s), where pattern is the allow-list entry
   with every * replaced by .* : a * matches any run of characters, a . any
   one character, every other character of an entry itself. *)
RECURSIVE RegExpTest(_, _)
RegExpTest(p, s) ==
    IF p = <<>> THEN s = <<>>
    ELSE IF Head(p) = "*"
         THEN RegExpTest(Tail(p), s) \/ (s # <<>> /\ RegExpTest(p, Tail(s)))
         ELSE /\ s # <<>>
              /\ (Head(p) = "." \/ Head(p) = Head(s))
              /\ RegExpTest(Tail(p), Tail(s))

\* checkIPWhitelist(req, whitelist)
checkIPWhitelist(req, whitelist) ==
    IF Len(whitelist) = 0 THEN TRUE
    ELSE LET realIp == IF req.xff # <<>> THEN Trim(FirstField(req.xff)) ELSE req.ip
         IN  \E i \in DOMAIN whitelist :
                \/ whitelist[i] = realIp
                \/ ("*" \in Range(whitelist[i]) /\ RegExpTest(whitelist[i], realIp))

(***************************************************************************)
(* sha256Hex and the comparison loop of verifyAdmin                        *)
(***************************************************************************)
DigestLen == 64

HexDigits == <<"0","1","2","3","4","5","6","7","8","9","a","b","c","d","e","f">>

(* sha256Hex(text): a hex string of DigestLen characters; the digit at
   position i is drawn from the character of text at position i modulo the
   length, the length and i.  (The model's digest is not SHA-256: it stands
   for it on the texts of the model, which are shorter than DigestLen, so
   every character of the text decides some digit.) *)
sha256Hex(text) ==
    [i \in 1..DigestLen |->
        HexDigits[((((IF Len(text) = 0 THEN 7
                     ELSE Code(text[((i - 1) % Len(text)) + 1]) * (i + Len(text)))
                    + i) % 251) % 16) + 1]]

HexIndex == IndexTable(HexDigits, 1)

\* s.charCodeAt(i) of a hex digit: "0".."9" are 48..57, "a".."f" are 97..102
charCodeAt(s, i) ==
    LET d == HexIndex[s[i]] IN IF d <= 10 THEN 47 + d ELSE 86 + d

\* a ^ b on non-negative integers
RECURSIVE BitXor(_, _)
BitXor(a, b) ==
    IF a = b THEN 0
    ELSE (((a % 2) + (b % 2)) % 2) + 2 * BitXor(a \div 2, b \div 2)

\* a | b on non-negative integers
RECURSIVE BitOr(_, _)
BitOr(a, b) ==
    IF b = 0 \/ a = b THEN a
    ELSE IF a = 0 THEN b
    ELSE Max(a % 2, b % 2) + 2 * BitOr(a \div 2, b \div 2)

(* One turn of the loop
     for (let i = 0; i < tokenHash.length; i++)
       result |= tokenHash.charCodeAt(i) ^ secretHash.charCodeAt(i);
   on the loop state s = [i, result, visited]: i is the position (1-based),
   visited counts the positions the body ran for. *)
CompareStep(tokenHash, secretHash, s) ==
    [i |-> s.i + 1,
     result |-> BitOr(s.result, BitXor(charCodeAt(tokenHash, s.i),
                                       charCodeAt(secretHash, s.i))),
     visited |-> s.visited + 1]

\* a faulty variant of CompareLoop: the loop ends at the first mismatch
RECURSIVE CompareLoopEarlyExit(_, _, _)
CompareLoopEarlyExit(tokenHash, secretHash, s) ==
    IF s.i > Len(tokenHash) \/ s.result # 0 THEN s
    ELSE CompareLoopEarlyExit(tokenHash, secretHash, CompareStep(tokenHash, secretHash, s))

RECURSIVE CompareLoop(_, _, _)
CompareLoop(tokenHash, secretHash, s) ==
    IF s.i > Len(tokenHash) THEN s
    ELSE CompareLoop(tokenHash, secretHash, CompareStep(tokenHash, secretHash, s))

\* lines 281-288: result = 0; the length test; the loop
CompareDigests(tokenHash, secretHash) ==
    IF Len(tokenHash) # Len(secretHash) THEN [i |-> 1, result |-> 1, visited |-> 0]
    ELSE CompareLoop(tokenHash, secretHash, [i |-> 1, result |-> 0, visited |-> 0])

(***************************************************************************)
(* verifyAdmin                                                             *)
(***************************************************************************)
MaxTokenLen == 1000

UaLogLen == 100

Bearer == <<"B","e","a","r","e","r"," ">>

CatalogPath == "/api/catalog"

\* the startup test: !ADMIN_SECRET || ADMIN_SECRET.trim() === ''
SecretMissing(secret) == secret = <<>> \/ Trim(secret) = <<>>

\* the process is serving unless the startup check called process.exit(1)
Startup(cfg) == ~(SecretMissing(cfg.secret) /\ cfg.production)

\* the test of line 257: !ADMIN_SECRET
SecretUnset(secret) == secret = <<>>

\* what verifyAdmin hands back: see verifyAdmin
AuthOut(l, checks, failed, status, delayed, visited) ==
    [logs |-> l, checks |-> checks, failed |-> failed, status |-> status,
     delayed |-> delayed, visited |-> visited]

\* a faulty variant of DigestStep: the entry of a failure carries the token
DigestStepWithToken(lg0, req, t, pre, cmp) ==
    IF cmp.result # 0
    THEN AuthOut(log(lg0, "ADMIN_AUTH_FAILED",
                     [ip |-> ReqIp(req), path |-> CatalogPath, reason |-> "invalid-token",
                      token |-> Suffix(req.auth, Len(Bearer))], t),
                 pre \o <<"d", "e">>, "e", 403, TRUE, cmp.visited)
    ELSE AuthOut(log(lg0, "ADMIN_AUTH_SUCCESS", [ip |-> ReqIp(req), path |-> CatalogPath], t),
                 pre \o <<"d", "e">>, "none", 0, FALSE, cmp.visited)

\* lines 290-304: the outcome of the comparison cmp
DigestStep(lg0, req, t, pre, cmp) ==
    IF cmp.result # 0
    THEN AuthOut(log(lg0, "ADMIN_AUTH_FAILED",
                     [ip |-> ReqIp(req), path |-> CatalogPath, reason |-> "invalid-token"], t),
                 pre \o <<"d", "e">>, "e", 403, TRUE, cmp.visited)
    ELSE AuthOut(log(lg0, "ADMIN_AUTH_SUCCESS", [ip |-> ReqIp(req), path |-> CatalogPath], t),
                 pre \o <<"d", "e">>, "none", 0, FALSE, cmp.visited)

\* const token = authHeader.substring(7)
TokenOf(authHeader) == Suffix(authHeader, Len(Bearer))

\* lines 264-288: the Authorization header, the token length, the digests
CredentialStep(lg0, cfg, req, t, pre) ==
    IF req.auth = <<>> \/ ~StartsWith(req.auth, Bearer)
    THEN AuthOut(lg0, pre \o <<"d">>, "d", 401, FALSE, 0)
    ELSE IF Len(TokenOf(req.auth)) > MaxTokenLen
    THEN AuthOut(lg0, pre \o <<"d">>, "d", 400, FALSE, 0)
    ELSE DigestStep(lg0, req, t, pre,
                    CompareDigests(sha256Hex(TokenOf(req.auth)), sha256Hex(cfg.secret)))

\* a faulty variant of SecretStep: the secret is not looked at
SecretStepSkipped(lg0, cfg, req, t, pre) == CredentialStep(lg0, cfg, req, t, pre \o <<"c">>)

\* lines 255-262: the server secret, then the credential
SecretStep(lg0, cfg, req, t, pre) ==
    IF SecretUnset(cfg.secret)
    THEN AuthOut(lg0, pre \o <<"c">>, "c", 500, FALSE, 0)
    ELSE CredentialStep(lg0, cfg, req, t, pre \o <<"c">>)

\* a faulty variant of SuspiciousStep: the secret is looked at before the flag
SuspiciousStepSecretFirst(lg0, sus, cfg, req, t, pre) ==
    IF SecretUnset(cfg.secret)
    THEN AuthOut(lg0, pre \o <<"c">>, "c", 500, FALSE, 0)
    ELSE IF isSuspicious(sus, ReqIp(req))
    THEN AuthOut(log(lg0, "SUSPICIOUS_IP_ATTEMPT",
                     [ip |-> ReqIp(req), path |-> CatalogPath], t),
                 pre \o <<"c", "b">>, "b", 429, FALSE, 0)
    ELSE CredentialStep(lg0, cfg, req, t, pre \o <<"c", "b">>)

\* a faulty variant of SuspiciousStep: a request with the secret is let through
SuspiciousStepUnlessSecret(lg0, sus, cfg, req, t, pre) ==
    IF isSuspicious(sus, ReqIp(req)) /\ req.auth # Bearer \o cfg.secret
    THEN AuthOut(log(lg0, "SUSPICIOUS_IP_ATTEMPT",
                     [ip |-> ReqIp(req), path |-> CatalogPath], t),
                 pre \o <<"b">>, "b", 429, FALSE, 0)
    ELSE SecretStep(lg0, cfg, req, t, pre \o <<"b">>)

\* lines 249-253: the suspicious flag, then the rest
SuspiciousStep(lg0, sus, cfg, req, t, pre) ==
    IF isSuspicious(sus, ReqIp(req))
    THEN AuthOut(log(lg0, "SUSPICIOUS_IP_ATTEMPT",
                     [ip |-> ReqIp(req), path |-> CatalogPath], t),
                 pre \o <<"b">>, "b", 429, FALSE, 0)
    ELSE SecretStep(lg0, cfg, req, t, pre \o <<"b">>)

\* lines 240-246: the IP allow-list, then the rest
AllowListStep(lg0, sus, cfg, req, t) ==
    IF Len(cfg.whitelist) > 0 /\ ~checkIPWhitelist(req, cfg.whitelist)
    THEN AuthOut(log(lg0, "ADMIN_ACCESS_DENIED_IP",
                     [ip |-> ReqIp(req), path |-> CatalogPath], t),
                 <<"a">>, "a", 403, FALSE, 0)
    ELSE SuspiciousStep(lg0, sus, cfg, req, t, <<"a">>)

(* verifyAdmin(req, res, next) at time t, with the audit log lg and the
   limiter's suspicious set sus.  The value holds the new audit log, the
   preconditions evaluated in order (checks), the one that failed (failed, or
   "none"), the response status (0 when next() is called), whether the
   response is sent from the timer (delayed), and the number of digest
   positions the comparison loop visited. *)
verifyAdmin(lg, sus, cfg, req, t) ==
    AllowListStep(log(lg, "ADMIN_API_REQUEST",
                      [ip |-> ReqIp(req), method |-> "POST", path |-> CatalogPath,
                       userAgent |-> Prefix(ReqUserAgent(req), UaLogLen)], t),
                  sus, cfg, req, t)

(***************************************************************************)
(* JSON values.  A value is a record tagged by t:                          *)
(*   null, bool (v), num (v, finite), inf (a non-finite number),           *)
(*   str (v: characters), arr (v: values),                                 *)
(*   obj (v: the properties [k, v] in insertion order, keys distinct).     *)
(* Undefined is what a property read gives when the property is absent.    *)
(***************************************************************************)
JNull == [t |-> "null"]

JInf == [t |-> "inf"]

Undefined == [t |-> "undefined"]

JBool(b) == [t |-> "bool", v |-> b]

JNum(n) == [t |-> "num", v |-> n]

JStr(s) == [t |-> "str", v |-> s]

JArr(a) == [t |-> "arr", v |-> a]

JObj(o) == [t |-> "obj", v |-> o]

\* data[key] of an object; undefined for a missing property or a non-object
Get(data, key) ==
    IF data.t = "obj" /\ \E i \in DOMAIN data.v : data.v[i].k = key
    THEN data.v[CHOOSE i \in DOMAIN data.v : data.v[i].k = key].v
    ELSE Undefined

\* obj[key] = value on the property list o
SetProp(o, key, value) ==
    IF \E i \in DOMAIN o : o[i].k = key
    THEN [i \in DOMAIN o |-> IF o[i].k = key THEN [k |-> key, v |-> value] ELSE o[i]]
    ELSE Append(o, [k |-> key, v |-> value])

\* !x of JavaScript
Falsy(x) ==
    \/ x.t \in {"undefined", "null"}
    \/ (x.t = "bool" /\ ~x.v)
    \/ (x.t = "num" /\ x.v = 0)
    \/ (x.t = "str" /\ x.v = <<>>)

(***************************************************************************)
(* sanitizeJsonData (server-security.js)                                   *)
(***************************************************************************)
SanMaxDepth == 10

SanMaxString == 10000

SanMaxArray == 1000

SanMaxKeys == 100

SanMaxKeyLen == 100

KeyChars == Range(Lower) \cup Range(Upper) \cup Range(Digits) \cup {"_"}

\* key.replace(/[^a-zA-Z0-9_]/g, '').slice(0, 100)
CleanKey(key) == Prefix(SelectSeq(key, LAMBDA c : c \in KeyChars), SanMaxKeyLen)

SanOk(v) == [ok |-> TRUE, v |-> v]

SanThrow(e) == [ok |-> FALSE, error |-> e]

RECURSIVE sanitizeJsonData(_, _, _)
RECURSIVE SanitizeItems(_, _, _)
RECURSIVE SanitizeProps(_, _, _)
RECURSIVE PropsOf(_, _, _, _)

\* the value of data.map(...) from the results rs of its items: the first item
\* that throws ends the call
ItemsResult(rs) ==
    IF \E i \in DOMAIN rs : ~rs[i].ok
    THEN rs[CHOOSE i \in DOMAIN rs : ~rs[i].ok /\ \A j \in 1..(i - 1) : rs[j].ok]
    ELSE SanOk(JArr([i \in DOMAIN rs |-> rs[i].v]))

\* data.map(item => sanitizeJsonData(item, maxDepth, currentDepth + 1))
SanitizeItems(items, maxDepth, currentDepth) ==
    ItemsResult([i \in DOMAIN items |-> sanitizeJsonData(items[i], maxDepth, currentDepth + 1)])

\* the positions of the clean keys that are not empty and not met before
FirstKeys(cleanKey) ==
    SelectSeq([i \in DOMAIN cleanKey |-> i],
              LAMBDA i : cleanKey[i] # <<>> /\ \A j \in 1..(i - 1) : cleanKey[j] # cleanKey[i])

\* the last position that holds the clean key of position i
LastKey(cleanKey, i) ==
    CHOOSE j \in DOMAIN cleanKey :
        cleanKey[j] = cleanKey[i] /\ \A m \in (j + 1)..Len(cleanKey) : cleanKey[m] # cleanKey[i]

\* the object built by the loop over the keys from the clean keys and the
\* results rs of the values: the first value that throws ends the call, and a
\* clean key met again keeps its place and takes the later value
PropsResult(cleanKey, rs, firsts) ==
    IF \E i \in DOMAIN rs : ~rs[i].ok
    THEN rs[CHOOSE i \in DOMAIN rs : ~rs[i].ok /\ \A j \in 1..(i - 1) : rs[j].ok]
    ELSE SanOk(JObj([n \in DOMAIN firsts |->
                       [k |-> cleanKey[firsts[n]], v |-> rs[LastKey(cleanKey, firsts[n])].v]]))

\* the values of the keys sanitized; a key cleaned to nothing is skipped
PropsOf(props, cleanKey, maxDepth, currentDepth) ==
    PropsResult(cleanKey,
                [i \in DOMAIN props |->
                   IF cleanKey[i] = <<>> THEN SanOk(JNull)
                   ELSE sanitizeJsonData(props[i].v, maxDepth, currentDepth + 1)],
                FirstKeys(cleanKey))

\* for (const key of keys) { cleanKey...; sanitized[cleanKey] = ... }
SanitizeProps(props, maxDepth, currentDepth) ==
    PropsOf(props, [i \in DOMAIN props |-> CleanKey(props[i].k)], maxDepth, currentDepth)

sanitizeJsonData(data, maxDepth, currentDepth) ==
    IF currentDepth > maxDepth THEN SanThrow("too-deep")
    ELSE CASE data.t \in {"null", "undefined"} -> SanOk(data)
           [] data.t = "str" -> SanOk(JStr(Prefix(data.v, SanMaxString)))
           [] data.t = "inf" -> SanOk(JNum(0))
           [] data.t = "num" -> SanOk(data)
           [] data.t = "bool" -> SanOk(data)
           [] data.t = "arr" ->
                IF Len(data.v) > SanMaxArray THEN SanThrow("array-too-long")
                ELSE SanitizeItems(data.v, maxDepth, currentDepth)
           [] data.t = "obj" ->
                IF Len(data.v) > SanMaxKeys THEN SanThrow("too-many-keys")
                ELSE SanitizeProps(data.v, maxDepth, currentDepth)

(***************************************************************************)
(* new URL(...) and detectSSRF (server-security.js)                        *)
(***************************************************************************)
\* the first position of s holding a character of cs, or 0
RECURSIVE IndexFrom(_, _, _)
IndexFrom(s, cs, i) ==
    IF i > Len(s) THEN 0 ELSE IF s[i] \in cs THEN i ELSE IndexFrom(s, cs, i + 1)

IndexOf(s, cs) == IndexFrom(s, cs, 1)

\* the last position of s holding a character of cs, or 0
RECURSIVE LastIndexFrom(_, _, _)
LastIndexFrom(s, cs, i) ==
    IF i < 1 THEN 0 ELSE IF s[i] \in cs THEN i ELSE LastIndexFrom(s, cs, i - 1)

LastIndexOf(s, cs) == LastIndexFrom(s, cs, Len(s))

\* c.toLowerCase()
LowerChar(c) ==
    IF c \in Range(Upper) THEN Lower[CHOOSE i \in DOMAIN Upper : Upper[i] = c] ELSE c

\* s.toLowerCase()
toLowerCase(s) == [i \in DOMAIN s |-> LowerChar(s[i])]

SpecialSchemes == {<<"h","t","t","p">>, <<"h","t","t","p","s">>, <<"f","t","p">>, <<"w","s">>, <<"w","s","s">>, <<"f","i","l","e">>}

SchemeChars == Range(Lower) \cup Range(Upper) \cup Range(Digits) \cup {"+", "-", "."}

\* characters that may not occur in the host of a special URL
ForbiddenHostChars == {" ", "#", "%", "/", ":", "<", ">", "?", "@", "\\", "^", "|"}

UrlFailure == [ok |-> FALSE]

\* the slashes after the scheme of a special URL are skipped
RECURSIVE SkipSlashes(_)
SkipSlashes(s) ==
    IF s # <<>> /\ Head(s) \in {"/", "\\"} THEN SkipSlashes(Tail(s)) ELSE s

UrlOk(scheme, host) == [ok |-> TRUE, protocol |-> scheme \o <<":">>, hostname |-> host]

\* the host and the port of a special URL are checked
ParseHost(scheme, host, port) ==
    IF \/ host = <<>>
       \/ ~(Range(port) \subseteq Range(Digits))
       \/ (Head(host) = "[" /\ host[Len(host)] # "]")
       \/ (Head(host) # "[" /\ Range(host) \cap (ForbiddenHostChars \cup {"[", "]"}) # {})
    THEN UrlFailure
    ELSE UrlOk(scheme, host)

\* host:port is split at the last colon when it follows the last bracket
ParsePort(scheme, hostport, pcolon, bracket) ==
    IF pcolon > bracket
    THEN ParseHost(scheme, toLowerCase(SubSeq(hostport, 1, pcolon - 1)), Suffix(hostport, pcolon))
    ELSE ParseHost(scheme, toLowerCase(hostport), <<>>)

ParseHostPort(scheme, hostport) ==
    ParsePort(scheme, hostport, LastIndexOf(hostport, {":"}), LastIndexOf(hostport, {"]"}))

\* the authority ends at the first / \ ? or #
ParseAuthority(after, stop) ==
    IF stop = 0 THEN after ELSE SubSeq(after, 1, stop - 1)

\* userinfo@ is dropped
ParseUserInfo(scheme, authority) ==
    ParseHostPort(scheme, Suffix(authority, LastIndexOf(authority, {"@"})))

ParseSpecial(scheme, after) ==
    ParseUserInfo(scheme, ParseAuthority(after, IndexOf(after, {"/", "\\", "?", "#"})))

ParseScheme(scheme, rest) ==
    IF scheme[1] \notin Range(Lower) \/ ~(Range(scheme) \subseteq SchemeChars)
    THEN UrlFailure
    ELSE IF scheme \notin SpecialSchemes THEN UrlOk(scheme, <<>>)
    ELSE ParseSpecial(scheme, SkipSlashes(rest))

ParseColon(s, colon) ==
    IF colon < 2 THEN UrlFailure
    ELSE ParseScheme(toLowerCase(SubSeq(s, 1, colon - 1)), Suffix(s, colon))

ParseTrimmed(s) == ParseColon(s, IndexOf(s, {":"}))

(* new URL(input) without a base, for the URL forms of the model: scheme,
   slashes, optional userinfo@, host (a name, a dotted-decimal address or a
   bracketed IPv6 address), optional :port, then path, query or fragment.
   The value is [ok, protocol, hostname] or UrlFailure when URL() throws. *)
ParseUrl(input) == ParseTrimmed(Trim(input))

\* url.startsWith('http') ? url : `https://${url}`
WithScheme(url) == IF StartsWith(url, <<"h","t","t","p">>) THEN url ELSE <<"h","t","t","p","s",":","/","/">> \o url

\* /^172\.(1[6-9]|2[0-9]|3[0-1])\./.test(h)
Is172Private(h) ==
    /\ Len(h) >= 7
    /\ SubSeq(h, 1, 4) = <<"1","7","2",".">>
    /\ \/ (h[5] = "1" /\ h[6] \in {"6", "7", "8", "9"})
       \/ (h[5] = "2" /\ h[6] \in Range(Digits))
       \/ (h[5] = "3" /\ h[6] \in {"0", "1"})
    /\ h[7] = "."

\* lines 221-241: the tests on the host name
SsrfHost(hostname) ==
    IF hostname = <<"l","o","c","a","l","h","o","s","t">> \/ hostname = <<"1","2","7",".","0",".","0",".","1">> \/ hostname = <<":",":","1">>
    THEN [isSSRF |-> TRUE, reason |-> "localhost"]
    ELSE IF \/ StartsWith(hostname, <<"1","0",".">>)
            \/ Is172Private(hostname)
            \/ StartsWith(hostname, <<"1","9","2",".","1","6","8",".">>)
            \/ StartsWith(hostname, <<"1","6","9",".","2","5","4",".">>)
    THEN [isSSRF |-> TRUE, reason |-> "private-ip"]
    ELSE IF EndsWith(hostname, <<".","l","o","c","a","l">>) \/ EndsWith(hostname, <<".","i","n","t","e","r","n","a","l">>)
    THEN [isSSRF |-> TRUE, reason |-> "internal-domain"]
    ELSE [isSSRF |-> FALSE, reason |-> "none"]

\* the try block on the parsed URL, the catch block when new URL() threw
SsrfOf(urlObj) ==
    IF ~urlObj.ok THEN [isSSRF |-> TRUE, reason |-> "invalid-url"]
    ELSE SsrfHost(toLowerCase(urlObj.hostname))

\* detectSSRF(url): [isSSRF, reason]
detectSSRF(url) == SsrfOf(ParseUrl(WithScheme(url)))

(***************************************************************************)
(* validateCatalogData (server.js)                                         *)
(***************************************************************************)
MaxCategories == 50

MaxApps == 500

MaxNameLen == 100

MaxHrefLen == 500

\* the outcome of validateCatalogData: {valid, error}, or an exception (threw)
Validation(valid, error, threw, lg) ==
    [valid |-> valid, error |-> error, threw |-> threw, logs |-> lg]

\* the object validateCatalogData examines: the sanitized copy of the body
Examined(catalog, sanitized) == sanitized

\* lines 356-363: new URL(app.href) and its protocol
ValidateProtocol(lg, url) ==
    IF ~url.ok THEN Validation(FALSE, "app-href-format", FALSE, lg)
    ELSE IF url.protocol # <<"h","t","t","p",":">> /\ url.protocol # <<"h","t","t","p","s",":">>
    THEN Validation(FALSE, "app-href-protocol", FALSE, lg)
    ELSE Validation(TRUE, "none", FALSE, lg)

\* lines 345-354: the SSRF check of app.href
ValidateHref(lg, name, href, ssrfCheck, t) ==
    IF ssrfCheck.isSSRF
    THEN Validation(FALSE, "app-href-unsafe", FALSE,
                    log(lg, "SSRF_ATTEMPT_DETECTED",
                        [url |-> href.v, reason |-> ssrfCheck.reason, appName |-> name.v], t))
    ELSE ValidateProtocol(lg, ParseUrl(WithScheme(href.v)))

\* lines 338-344: app.name and app.href
ValidateFields(lg, name, href, t) ==
    IF Falsy(name) \/ name.t # "str" \/ Len(name.v) > MaxNameLen
    THEN Validation(FALSE, "app-name", FALSE, lg)
    ELSE IF Falsy(href) \/ href.t # "str" \/ Len(href.v) > MaxHrefLen
    THEN Validation(FALSE, "app-href", FALSE, lg)
    ELSE ValidateHref(lg, name, href, detectSSRF(href.v), t)

\* the body of the loop for one app; reading a property of null throws
ValidateApp(lg, app, t) ==
    IF app.t = "null" THEN Validation(FALSE, "TypeError", TRUE, lg)
    ELSE ValidateFields(lg, Get(app, <<"n","a","m","e">>), Get(app, <<"h","r","e","f">>), t)

RECURSIVE ValidateApps(_, _, _, _)

\* the loop goes on after app i passed (v), or returns what it found
ValidateRest(v, apps, i, t) ==
    IF v.valid THEN ValidateApps(v.logs, apps, i + 1, t) ELSE v

\* the loop over catalog.apps, from app i (1-based)
ValidateApps(lg, apps, i, t) ==
    IF i > Len(apps) THEN Validation(TRUE, "none", FALSE, lg)
    ELSE ValidateRest(ValidateApp(lg, apps[i], t), apps, i, t)

\* lines 321-336: categories and apps of the examined object
ValidateLists(lg, categories, apps, t) ==
    IF categories.t # "arr" THEN Validation(FALSE, "categories", FALSE, lg)
    ELSE IF apps.t # "arr" THEN Validation(FALSE, "apps", FALSE, lg)
    ELSE IF Len(categories.v) > MaxCategories
    THEN Validation(FALSE, "too-many-categories", FALSE, lg)
    ELSE IF Len(apps.v) > MaxApps
    THEN Validation(FALSE, "too-many-apps", FALSE, lg)
    ELSE ValidateApps(lg, apps.v, 1, t)

ValidateExamined(lg, cat, t) ==
    ValidateLists(lg, Get(cat, <<"c","a","t","e","g","o","r","i","e","s">>), Get(cat, <<"a","p","p","s">>), t)

\* lines 314-319: catalog = sanitizeJsonData(catalog) in its try block
ValidateSanitized(lg, catalog, san, t) ==
    IF ~san.ok THEN Validation(FALSE, "structure", FALSE, lg)
    ELSE ValidateExamined(lg, Examined(catalog, san.v), t)

\* validateCatalogData(catalog) at time t with the audit log lg
validateCatalogData(lg, catalog, t) ==
    IF Falsy(catalog) \/ catalog.t \notin {"obj", "arr"}
    THEN Validation(FALSE, "format", FALSE, lg)
    ELSE ValidateSanitized(lg, catalog, sanitizeJsonData(catalog, SanMaxDepth, 0), t)

(***************************************************************************)
(* JSON.stringify and JSON.parse.  A document is a sequence of lexemes:    *)
(* punctuation, literals, numbers and strings.                             *)
(***************************************************************************)
Punct(c) == [lx |-> "punct", v |-> c]

Lit(w) == [lx |-> "lit", v |-> w]

RECURSIVE Stringify(_)
RECURSIVE StringifyItems(_, _)
RECURSIVE StringifyProps(_, _)

StringifyItems(items, i) ==
    IF i > Len(items) THEN <<>>
    ELSE (IF i > 1 THEN <<Punct(",")>> ELSE <<>>)
         \o Stringify(items[i]) \o StringifyItems(items, i + 1)

StringifyProps(props, i) ==
    IF i > Len(props) THEN <<>>
    ELSE (IF i > 1 THEN <<Punct(",")>> ELSE <<>>)
         \o <<[lx |-> "str", v |-> props[i].k], Punct(":")>>
         \o Stringify(props[i].v) \o StringifyProps(props, i + 1)

\* JSON.stringify(value, null, 2), white space left out
Stringify(value) ==
    CASE value.t = "null" -> <<Lit("null")>>
      [] value.t = "inf"  -> <<Lit("null")>>
      [] value.t = "bool" -> <<Lit(IF value.v THEN "true" ELSE "false")>>
      [] value.t = "num"  -> <<[lx |-> "num", v |-> value.v]>>
      [] value.t = "str"  -> <<[lx |-> "str", v |-> value.v]>>
      [] value.t = "arr"  -> <<Punct("[")>> \o StringifyItems(value.v, 1) \o <<Punct("]")>>
      [] value.t = "obj"  -> <<Punct("{")>> \o StringifyProps(value.v, 1) \o <<Punct("}")>>

ParseFail == [ok |-> FALSE]

Parsed(v, next) == [ok |-> TRUE, v |-> v, next |-> next]

IsPunct(text, i, c) == i <= Len(text) /\ text[i].lx = "punct" /\ text[i].v = c

RECURSIVE ParseValue(_, _)
RECURSIVE ParseItems(_, _, _)
RECURSIVE ParseProps(_, _, _)

\* the elements of an array from lexeme i, acc the elements read so far
ParseItems(text, i, acc) ==
    LET r == ParseValue(text, i) IN
    IF ~r.ok THEN ParseFail
    ELSE IF IsPunct(text, r.next, ",") THEN ParseItems(text, r.next + 1, Append(acc, r.v))
    ELSE IF IsPunct(text, r.next, "]") THEN Parsed(JArr(Append(acc, r.v)), r.next + 1)
    ELSE ParseFail

\* the properties of an object from lexeme i, acc the properties read so far
ParseProps(text, i, acc) ==
    IF ~(i <= Len(text) /\ text[i].lx = "str" /\ IsPunct(text, i + 1, ":"))
    THEN ParseFail
    ELSE
    LET r == ParseValue(text, i + 2) IN
    IF ~r.ok THEN ParseFail
    ELSE LET acc2 == SetProp(acc, text[i].v, r.v) IN
         IF IsPunct(text, r.next, ",") THEN ParseProps(text, r.next + 1, acc2)
         ELSE IF IsPunct(text, r.next, "}") THEN Parsed(JObj(acc2), r.next + 1)
         ELSE ParseFail

\* one JSON value from lexeme i
ParseValue(text, i) ==
    IF i > Len(text) THEN ParseFail
    ELSE
    LET x == text[i] IN
    CASE x.lx = "lit" ->
            Parsed(IF x.v = "null" THEN JNull ELSE JBool(x.v = "true"), i + 1)
      [] x.lx = "num" -> Parsed(JNum(x.v), i + 1)
      [] x.lx = "str" -> Parsed(JStr(x.v), i + 1)
      [] x.lx = "punct" ->
            IF x.v = "[" THEN (IF IsPunct(text, i + 1, "]")
                               THEN Parsed(JArr(<<>>), i + 2)
                               ELSE ParseItems(text, i + 1, <<>>))
            ELSE IF x.v = "{" THEN (IF IsPunct(text, i + 1, "}")
                                    THEN Parsed(JObj(<<>>), i + 2)
                                    ELSE ParseProps(text, i + 1, <<>>))
            ELSE ParseFail

\* JSON.parse(text): [ok, v]; ok is FALSE when it throws
JsonParse(text) ==
    LET r == ParseValue(text, 1) IN
    IF r.ok /\ r.next = Len(text) + 1 THEN [ok |-> TRUE, v |-> r.v] ELSE ParseFail

(***************************************************************************)
(* The file system.  files.dir maps a path to the file it names (0: none), *)
(* files.data maps a file to its content.  A file lives while a path names *)
(* it or a request holds it open.                                          *)
(***************************************************************************)
CatalogFile == "catalog.json"

TempFile == "catalog.json.tmp"

PublicFile == "public/catalog.json"

Paths == {CatalogFile, TempFile, PublicFile}

\* possiblePaths of GET /api/catalog with CATALOG_FILE_PATH at its default
possiblePaths == <<CatalogFile, CatalogFile, PublicFile, CatalogFile, PublicFile>>

NoFile == 0

\* the content of a file after `bytes` is written at offset 0
Overwrite(old, bytes) ==
    IF Len(bytes) >= Len(old) THEN bytes ELSE bytes \o SubSeq(old, Len(bytes) + 1, Len(old))

\* fs.open(path, 'w'): create the file or truncate it; the value is the open file
FsOpenTrunc(f, path) ==
    IF f.dir[path] # NoFile
    THEN [files |-> [f EXCEPT !.data[f.dir[path]] = <<>>], fd |-> f.dir[path]]
    ELSE LET n == CHOOSE k \in 1..(Cardinality(DOMAIN f.data) + 1) : k \notin DOMAIN f.data
         IN  [files |-> [dir |-> [f.dir EXCEPT ![path] = n],
                         data |-> [k \in DOMAIN f.data \cup {n} |->
                                      IF k = n THEN <<>> ELSE f.data[k]]],
              fd |-> n]

\* write(fd, bytes) from the start of the file
FsWrite(f, fd, bytes) == [f EXCEPT !.data[fd] = Overwrite(@, bytes)]

\* fs.rename(from, to): [ok, files]; ok is FALSE on ENOENT
FsRename(f, from, to) ==
    IF f.dir[from] = NoFile THEN [ok |-> FALSE, files |-> f]
    ELSE [ok |-> TRUE,
          files |-> [f EXCEPT !.dir = [@ EXCEPT ![to] = f.dir[from], ![from] = NoFile]]]

\* fs.readFile(path): [ok, data]; ok is FALSE on ENOENT
FsReadFile(f, path) ==
    IF f.dir[path] = NoFile THEN [ok |-> FALSE, data |-> <<>>]
    ELSE [ok |-> TRUE, data |-> f.data[f.dir[path]]]

\* drop the files that no path names and no request in rs holds open
Reclaim(f, rs) ==
    LET live == {f.dir[p] : p \in Paths} \cup {rs[i].fd : i \in DOMAIN rs}
    IN  [f EXCEPT !.data = [k \in DOMAIN f.data \cap live |-> f.data[k]]]

(***************************************************************************)
(* The routes.  A request in reqs is a record                              *)
(*   method, req: what was received                                        *)
(*   pc: "open", "write", "rename" (POST, awaiting the file system),       *)
(*       "timer" (the delayed 403), "read" (GET, reading path idx),        *)
(*       "done"                                                            *)
(*   rl: the result of the rate limiter; auth: what verifyAdmin decided;   *)
(*   val: what validateCatalogData returned; fd: the open temporary file;  *)
(*   due: when the timer fires; status, payload: the response; sent: the   *)
(*   number of responses sent; at: when the request arrived.               *)
(***************************************************************************)
PostMax == 5

GetMax == 30

WindowMs == 60000

BodyLimit == 10485760

DelayMin == 100

DelayMax == 200

SweepMs == 300000

NoRl == [allowed |-> FALSE, retryAfter |-> 0, reason |-> "unreached"]

NoAuth == [checks |-> <<>>, failed |-> "unreached", status |-> 0,
           delayed |-> FALSE, visited |-> 0]

NoVal == [valid |-> FALSE, error |-> "unreached", threw |-> FALSE]

NoPayload == JNull

NewRequest(method, req, t) ==
    [method |-> method, req |-> req, pc |-> "done", idx |-> 0, rl |-> NoRl,
     auth |-> NoAuth, val |-> NoVal, fd |-> NoFile, due |-> 0, status |-> 0,
     payload |-> NoPayload, sent |-> 0, at |-> t]

\* res.status(status).json(payload)
Respond(r, status, payload) ==
    [r EXCEPT !.pc = "done", !.status = status, !.payload = payload, !.sent = @ + 1]

\* the limiter and the logger as one value, and back
Limiter(s, sus, lg) == [store |-> s, suspiciousIPs |-> sus, logs |-> lg]

\* express.json({limit: '10mb'}): a longer body goes to the error handler
BodyTooLarge(req) == req.len > BodyLimit

\* the request r with what validateCatalogData returned
WithVal(r, v) == [r EXCEPT !.val = [valid |-> v.valid, error |-> v.error, threw |-> v.threw]]

\* a faulty variant of PostValidated: a body found invalid goes on to the write
PostValidatedAnyway(r, v) ==
    IF v.threw THEN [r |-> Respond(WithVal(r, v), 500, NoPayload), logs |-> v.logs]
    ELSE [r |-> [WithVal(r, v) EXCEPT !.pc = "open"], logs |-> v.logs]

(* Lines 470-488 with the validation v of the body: the 400, the exception
   passed to the catch block (500), or on to the write. *)
PostValidated(r, v) ==
    IF v.threw THEN [r |-> Respond(WithVal(r, v), 500, NoPayload), logs |-> v.logs]
    ELSE IF ~v.valid THEN [r |-> Respond(WithVal(r, v), 400, NoPayload), logs |-> v.logs]
    ELSE [r |-> [WithVal(r, v) EXCEPT !.pc = "open"], logs |-> v.logs]

(* The handler of POST /api/catalog up to its first await (lines 460-488):
   the request r with the audit log lg; the value is [r, logs]. *)
PostHandler(r, lg, t) ==
    IF r.req.len > BodyLimit THEN [r |-> Respond(r, 413, NoPayload), logs |-> lg]
    ELSE PostValidated(r, validateCatalogData(lg, r.req.body, t))

\* the request r with what verifyAdmin decided
WithAuth(r, a) ==
    [r EXCEPT !.auth = [checks |-> a.checks, failed |-> a.failed, status |-> a.status,
                        delayed |-> a.delayed, visited |-> a.visited]]

\* the limiter st with the audit log lg
WithLogs(st, lg) == [st EXCEPT !.logs = lg]

\* the handler ran on the request: the value of PostRoute
Handled(st, h) == [st |-> WithLogs(st, h.logs), r |-> h.r]

\* a faulty variant of PostAuthorized: after a rejection sent at once the
\* handler is called all the same
PostAuthorizedThenNext(st, r, a, t, delay) ==
    IF a.failed # "none"
    THEN IF a.delayed
         THEN [st |-> WithLogs(st, a.logs),
               r |-> [WithAuth(r, a) EXCEPT !.pc = "timer", !.due = t + delay]]
         ELSE Handled(st, PostHandler(Respond(WithAuth(r, a), a.status, NoPayload), a.logs, t))
    ELSE Handled(st, PostHandler(WithAuth(r, a), a.logs, t))

(* After verifyAdmin returned a for the request r: the response it sent, the
   timer it started, or the handler it called by next(). *)
\* a faulty variant of PostAuthorized: the 403 of a wrong token is sent at once
PostAuthorizedAtOnce(st, r, a, t, delay) ==
    IF a.failed # "none"
    THEN [st |-> WithLogs(st, a.logs), r |-> Respond(WithAuth(r, a), a.status, NoPayload)]
    ELSE Handled(st, PostHandler(WithAuth(r, a), a.logs, t))

PostAuthorized(st, r, a, t, delay) ==
    IF a.failed # "none"
    THEN IF a.delayed
         THEN [st |-> WithLogs(st, a.logs),
               r |-> [WithAuth(r, a) EXCEPT !.pc = "timer", !.due = t + delay]]
         ELSE [st |-> WithLogs(st, a.logs), r |-> Respond(WithAuth(r, a), a.status, NoPayload)]
    ELSE Handled(st, PostHandler(WithAuth(r, a), a.logs, t))

(* After the rate-limit middleware of lines 449-459 got rateLimitCheck for the
   request r: the 429 it sends, or next() into verifyAdmin. *)
PostLimited(rateLimitCheck, r, cfg, t, delay) ==
    IF ~rateLimitCheck.res.allowed
    THEN [st |-> rateLimitCheck.st,
          r |-> Respond([r EXCEPT !.rl = rateLimitCheck.res], 429,
                        JNum(rateLimitCheck.res.retryAfter))]
    ELSE PostAuthorized(rateLimitCheck.st, [r EXCEPT !.rl = rateLimitCheck.res],
                        verifyAdmin(rateLimitCheck.st.logs, rateLimitCheck.st.suspiciousIPs,
                                    cfg, r.req, t),
                        t, delay)

(* POST /api/catalog from the arrival of the request to the first await or
   the response: express.json, the rate-limit middleware, verifyAdmin and the
   handler.  st is the limiter with the logger, delay the delay drawn for the
   timer; the value is [st, r]. *)
PostRoute(st, cfg, req, t, delay) ==
    IF BodyTooLarge(req) THEN [st |-> st, r |-> Respond(NewRequest("POST", req, t), 500, NoPayload)]
    ELSE PostLimited(check(st, req, PostMax, WindowMs, CatalogPath, t),
                     NewRequest("POST", req, t), cfg, t, delay)

\* catalog.categories.length / catalog.apps.length of the handler's response
LengthOf(x) == IF x.t \in {"arr", "str"} THEN JNum(Len(x.v)) ELSE Undefined

(***************************************************************************)
(* The inputs of the model                                                 *)
(***************************************************************************)
IpA == <<"5",".","5",".","5",".","5">>

IpB == <<"9",".","9",".","9",".","9">>

Curl == <<"c","u","r","l">>

\* two User-Agent headers that agree on their first 50 characters
LongUa1 == Repeat("m", UaKeyLen) \o <<"A">>

LongUa2 == Repeat("m", UaKeyLen) \o <<"B">>

TheSecret == <<"s","3","c","r","e","t">>

WrongToken == <<"s","3","c","r","e","T">>

BlankSecret == <<" ">>

AuthNone == <<>>

AuthRight == Bearer \o TheSecret

AuthWrong == Bearer \o WrongToken

AuthBasic == <<"B","a","s","i","c"," ","s","3","c","r","e","t">>

AuthLong == Bearer \o Repeat("x", MaxTokenLen + 1)

K(name, value) == [k |-> name, v |-> value]

AppOf(name, href) == JObj(<<K(<<"n","a","m","e">>, JStr(name)), K(<<"h","r","e","f">>, JStr(href))>>)

CatalogOf(categories, apps) ==
    JObj(<<K(<<"c","a","t","e","g","o","r","i","e","s">>, JArr(categories)), K(<<"a","p","p","s">>, JArr(apps))>>)

SafeHref == <<"h","t","t","p","s",":","/","/","o","k",".","c","o","m","/","x">>

LoopbackHref == <<"h","t","t","p",":","/","/","1","2","7",".","0",".","0",".","1","/">>

\* a catalog with one category and one app
BodyOne == CatalogOf(<<JStr(<<"A","I">>)>>, <<AppOf(<<"G","P","T">>, SafeHref)>>)

\* the empty catalog
BodyEmpty == CatalogOf(<<>>, <<>>)

\* an app whose href points at the loopback address
BodyLoopback == CatalogOf(<<JStr(<<"A","I">>)>>, <<AppOf(<<"G","P","T">>, LoopbackHref)>>)

\* an app with the properties "href" and "href!": both clean to the key href
BodyShadow ==
    CatalogOf(<<JStr(<<"A","I">>)>>,
              <<JObj(<<K(<<"n","a","m","e">>, JStr(<<"G","P","T">>)), K(<<"h","r","e","f">>, JStr(LoopbackHref)),
                       K(<<"h","r","e","f","!">>, JStr(SafeHref))>>)>>)

\* a body that is an array
BodyArray == JArr(<<>>)

\* the top-level properties are "categories!" and "apps!"
BodyBangKeys == JObj(<<K(<<"c","a","t","e","g","o","r","i","e","s","!">>, JArr(<<>>)), K(<<"a","p","p","s","!">>, JArr(<<>>))>>)

\* apps holds null
BodyNullApp == CatalogOf(<<>>, <<JNull>>)

\* one category more than validateCatalogData accepts
BodyManyCategories == CatalogOf([i \in 1..(MaxCategories + 1) |-> JStr(<<"c">>)], <<>>)

\* one category more than accepted, hidden behind a second property "categories!"
BodyManyShadow ==
    JObj(<<K(<<"c","a","t","e","g","o","r","i","e","s">>, JArr([i \in 1..(MaxCategories + 1) |-> JStr(<<"c">>)])),
           K(<<"a","p","p","s">>, JArr(<<>>)),
           K(<<"c","a","t","e","g","o","r","i","e","s","!">>, JArr(<<>>))>>)

BodyList == <<BodyOne, BodyEmpty, BodyLoopback, BodyShadow, BodyArray, BodyBangKeys,
              BodyNullApp, BodyManyCategories, BodyManyShadow>>

SmallLen == 64

\* a client of the workload: who it is, what it may send, how often
Profile(ip, ua, xff, auths, bodies, lens, posts, gets) ==
    [ip |-> ip, ua |-> ua, xff |-> xff, auths |-> auths, bodies |-> bodies,
     lens |-> lens, posts |-> posts, gets |-> gets]

(* what the clients and the clock may do: the clients, the steps of the clock
   (deltas) and how many it takes (ticks), the delays Math.random() gives the
   timer of verifyAdmin, and the number of requests in flight at a time *)
Workload(clients, deltas, ticks, delays, inflight) ==
    [clients |-> clients, deltas |-> deltas, ticks |-> ticks, delays |-> delays,
     inflight |-> inflight, builds |-> 0]

Config(secret, whitelist, production) ==
    [secret |-> secret, whitelist |-> whitelist, production |-> production]

EmptyStore == [k \in {} |-> 0]

\* the file system at startup: the deployed public/catalog.json, and the
\* catalog file when dist/catalog.json was deployed
FilesAtStart(withCatalog) ==
    IF withCatalog
    THEN [dir |-> [p \in Paths |-> CASE p = CatalogFile -> 1 [] p = PublicFile -> 2
                                     [] OTHER -> NoFile],
          data |-> [k \in {1, 2} |-> Stringify(BodyEmpty)]]
    ELSE [dir |-> [p \in Paths |-> IF p = PublicFile THEN 1 ELSE NoFile],
          data |-> [k \in {1} |-> Stringify(BodyEmpty)]]

\* localStorage.getItem(key): no item, or the string stored under the key
NoItem == [has |-> FALSE, v |-> <<>>]

Item(v) == [has |-> TRUE, v |-> v]

\* window.location.hash: nothing of interest, #logout=1 or #admin=<raw>
NoUrl == [kind |-> "none", raw |-> <<>>]

\* the browser with no page open and an empty localStorage, for a build whose
\* VITE_ADMIN_HASH is adminHash
ClosedSession(adminHash) ==
    [phase |-> "closed", isAdmin |-> FALSE, seen |-> FALSE, pending |-> <<>>,
     url |-> NoUrl, adminHash |-> adminHash,
     hash |-> NoItem, secret |-> NoItem, loginTime |-> NoItem]

\* the browser of the runs in which only the server acts
NoSession == ClosedSession(<<>>)

\* no utility function is applied on its own
NoCall == [fn |-> "none"]

\* the state after the process started with configuration cfg
ServerInit(cfg, withCatalog, work) ==
    /\ config = cfg
    /\ started = Startup(cfg)
    /\ now = 0
    /\ store = EmptyStore
    /\ suspiciousIPs = {}
    /\ logs = <<>>
    /\ files = FilesAtStart(withCatalog)
    /\ reqs = <<>>
    /\ nextSweep = SweepMs
    /\ call = NoCall
    /\ load = work
    /\ session = NoSession

(***************************************************************************)
(* The server's steps                                                      *)
(***************************************************************************)
InFlight == Cardinality({i \in DOMAIN reqs : reqs[i].pc # "done"})

\* a request of the client with profile c, with Authorization header h, body b, Content-Length n
MakeRequest(c, h, b, n) ==
    [ip |-> c.ip, ua |-> c.ua, xff |-> c.xff, auth |-> h, body |-> b, len |-> n]

\* a POST /api/catalog arrives and runs to its first await or its response
PostCatalog(c, h, b, n, delay) ==
    /\ started
    /\ load.clients[c].posts > 0
    /\ InFlight < load.inflight
    /\ \E out \in {PostRoute(Limiter(store, suspiciousIPs, logs), config,
                               MakeRequest(load.clients[c], h, BodyList[b], n), now, delay)} :
           /\ store' = out.st.store
           /\ suspiciousIPs' = out.st.suspiciousIPs
           /\ logs' = out.st.logs
           /\ reqs' = Append(reqs, out.r)
    /\ load' = [load EXCEPT !.clients[c].posts = @ - 1]
    /\ UNCHANGED <<config, started, now, files, nextSweep, session, call>>

\* fs.writeFile(tempPath, ...) opens the temporary file (after mkdir resolved)
PostOpen(i) ==
    /\ reqs[i].pc = "open"
    /\ LET o == FsOpenTrunc(files, TempFile)
       IN  /\ files' = o.files
           /\ reqs' = [reqs EXCEPT ![i].pc = "write", ![i].fd = o.fd]
    /\ UNCHANGED <<config, started, now, store, suspiciousIPs, logs, nextSweep,
                   load, session, call>>

\* fs.writeFile writes JSON.stringify(req.body) to the open file and closes it
PostWrite(i) ==
    /\ reqs[i].pc = "write"
    /\ LET rs == [reqs EXCEPT ![i].pc = "rename", ![i].fd = NoFile]
       IN  /\ files' = Reclaim(FsWrite(files, reqs[i].fd, Stringify(reqs[i].req.body)), rs)
           /\ reqs' = rs
    /\ UNCHANGED <<config, started, now, store, suspiciousIPs, logs, nextSweep,
                   load, session, call>>

\* fs.rename(tempPath, CATALOG_FILE_PATH), then lines 500-521
PostRename(i) ==
    /\ reqs[i].pc = "rename"
    /\ LET mv == FsRename(files, TempFile, CatalogFile)
           catalog == reqs[i].req.body
           categories == Get(catalog, <<"c","a","t","e","g","o","r","i","e","s">>)
           apps == Get(catalog, <<"a","p","p","s">>)
           throws == categories.t \in {"undefined", "null"} \/ apps.t \in {"undefined", "null"}
           rs == IF mv.ok /\ ~throws
                 THEN [reqs EXCEPT ![i] = Respond(@, 200,
                           JObj(<<[k |-> <<"c","a","t","e","g","o","r","i","e","s">>,
                                   v |-> LengthOf(categories)],
                                  [k |-> <<"a","p","p","s">>, v |-> LengthOf(apps)]>>))]
                 ELSE [reqs EXCEPT ![i] = Respond(@, 500, NoPayload)]
       IN  /\ files' = Reclaim(mv.files, rs)
           /\ reqs' = rs
           /\ logs' = IF mv.ok /\ ~throws
                      THEN log(logs, "CATALOG_UPDATE_SUCCESS",
                               [ip |-> ReqIp(reqs[i].req),
                                categories |-> LengthOf(categories),
                                apps |-> LengthOf(apps)], now)
                      ELSE logs
    /\ UNCHANGED <<config, started, now, store, suspiciousIPs, nextSweep, load, session, call>>

\* the timer of line 297 fires: res.status(403).json(...)
TimerFires(i) ==
    /\ reqs[i].pc = "timer"
    /\ now >= reqs[i].due
    /\ reqs' = [reqs EXCEPT ![i] = Respond(@, 403, NoPayload)]
    /\ UNCHANGED <<config, started, now, store, suspiciousIPs, logs, files, nextSweep,
                   load, session, call>>

\* a GET /api/catalog arrives: the rate-limit middleware, then the first await
GetCatalog(c) ==
    /\ started
    /\ load.clients[c].gets > 0
    /\ InFlight < load.inflight
    /\ LET req == MakeRequest(load.clients[c], <<>>, JNull, 0)
           r0 == NewRequest("GET", req, now)
           rateLimitCheck == check(Limiter(store, suspiciousIPs, logs), req,
                                   GetMax, WindowMs, CatalogPath, now)
           r1 == [r0 EXCEPT !.rl = rateLimitCheck.res]
       IN  /\ store' = rateLimitCheck.st.store
           /\ suspiciousIPs' = rateLimitCheck.st.suspiciousIPs
           /\ IF ~rateLimitCheck.res.allowed
              THEN /\ logs' = rateLimitCheck.st.logs
                   /\ reqs' = Append(reqs, Respond(r1, 429,
                                                   JNum(rateLimitCheck.res.retryAfter)))
              ELSE /\ logs' = log(rateLimitCheck.st.logs, "CATALOG_READ",
                                  [ip |-> req.ip], now)
                   /\ reqs' = Append(reqs, [r1 EXCEPT !.pc = "read", !.idx = 1])
    /\ load' = [load EXCEPT !.clients[c].gets = @ - 1]
    /\ UNCHANGED <<config, started, now, files, nextSweep, session, call>>

\* x?.length || 0 of the CATALOG_READ_SUCCESS entry
LengthOrZero(x) == IF x.t \in {"arr", "str"} THEN Len(x.v) ELSE 0

\* one turn of the loop over possiblePaths (lines 409-419), then lines 421-438
GetRead(i) ==
    /\ reqs[i].pc = "read"
    /\ LET filePath == possiblePaths[reqs[i].idx]
           rd == FsReadFile(files, filePath)
           parsed == IF rd.ok THEN JsonParse(rd.data) ELSE ParseFail
           last == reqs[i].idx = Len(possiblePaths)
       IN  IF parsed.ok /\ ~Falsy(parsed.v)
           THEN /\ reqs' = [reqs EXCEPT ![i] = Respond(@, 200, parsed.v)]
                /\ logs' = log(logs, "CATALOG_READ_SUCCESS",
                               [path |-> filePath,
                                categories |-> LengthOrZero(Get(parsed.v,
                                    <<"c","a","t","e","g","o","r","i","e","s">>)),
                                apps |-> LengthOrZero(Get(parsed.v, <<"a","p","p","s">>))],
                               now)
           ELSE IF parsed.ok \/ last
           THEN /\ reqs' = [reqs EXCEPT ![i] = Respond(@, 404, NoPayload)]
                /\ logs' = log(logs, "CATALOG_READ_FAILED", [error |-> "not-found"], now)
           ELSE /\ reqs' = [reqs EXCEPT ![i].idx = @ + 1]
                /\ logs' = logs
    /\ UNCHANGED <<config, started, now, store, suspiciousIPs, files, nextSweep,
                   load, session, call>>

\* a request that awaits the file system
Awaiting(r) == r.pc \in {"open", "write", "rename", "read"}

\* time passes; the clock of the model stands still while a request awaits the
\* file system
Tick(d) ==
    /\ load.ticks > 0
    /\ \A i \in DOMAIN reqs : ~Awaiting(reqs[i])
    /\ now' = now + d
    /\ load' = [load EXCEPT !.ticks = @ - 1]
    /\ UNCHANGED <<config, started, store, suspiciousIPs, logs, files, reqs, nextSweep,
                   session, call>>

\* setInterval(() => advancedRateLimiter.clear(), 5 * 60 * 1000)
Sweep ==
    /\ started
    /\ now >= nextSweep
    /\ store' = clear(store, now)
    /\ nextSweep' = now + SweepMs
    /\ UNCHANGED <<config, started, now, suspiciousIPs, logs, files, reqs, load, session, call>>

(***************************************************************************)
(* The admin session of the browser (src/App.tsx)                           *)
(***************************************************************************)
\* const sessionTimeout = 24 * 60 * 60 * 1000
sessionTimeout == 24 * 60 * 60 * 1000

Hour == 60 * 60 * 1000

\* n.toString() for n >= 0
RECURSIVE toString(_)
toString(n) == IF n < 10 THEN <<Digits[n + 1]>> ELSE Append(toString(n \div 10), Digits[(n % 10) + 1])

DigitValue == IndexTable(Digits, 1)

\* the number the digits s[1..i] write
RECURSIVE DigitsValue(_, _)
DigitsValue(s, i) == IF i = 0 THEN 0 ELSE 10 * DigitsValue(s, i - 1) + (DigitValue[s[i]] - 1)

\* the length of the longest prefix of s[i..] made of digits
RECURSIVE DigitRun(_, _)
DigitRun(s, i) ==
    IF i > Len(s) \/ s[i] \notin Range(Digits) THEN 0 ELSE 1 + DigitRun(s, i + 1)

\* parseInt(s, 10) of a string without sign and leading white space
parseInt(s) ==
    IF DigitRun(s, 1) = 0 THEN [nan |-> TRUE, n |-> 0]
    ELSE [nan |-> FALSE, n |-> DigitsValue(s, DigitRun(s, 1))]

\* btoa(password), kept as the codes of the characters it encodes
btoa(text) == [i \in DOMAIN text |-> Code(text[i])]

\* !ADMIN_HASH || ADMIN_HASH.trim() === ""
AdminHashUnset(s) == s.adminHash = <<>> \/ Trim(s.adminHash) = <<>>

\* an element of the sequence q less
RECURSIVE Without(_, _)
Without(q, e) ==
    IF q = <<>> THEN <<>>
    ELSE IF Head(q) = e THEN Without(Tail(q), e)
    ELSE <<Head(q)>> \o Without(Tail(q), e)

(* setIsAdmin(v): the next render has isAdmin = v, and the effect with the
   dependency [isAdmin] runs after it when v differs from the value the effect
   last ran with *)
setIsAdmin(s, v) ==
    [s EXCEPT !.isAdmin = v,
              !.pending = IF v = s.seen THEN Without(@, "sync")
                          ELSE IF "sync" \in Range(@) THEN @
                          ELSE Append(@, "sync")]

\* removeItem of aijob-admin-hash, aijob-admin-secret and aijob-admin-login-time
RemoveAll(s) == [s EXCEPT !.hash = NoItem, !.secret = NoItem, !.loginTime = NoItem]

\* removeItem of aijob-admin-hash and aijob-admin-secret
RemoveHashAndSecret(s) == [s EXCEPT !.hash = NoItem, !.secret = NoItem]

\* the three setItem calls of a login
StoreLogin(s, password, t) ==
    [s EXCEPT !.hash = Item(s.adminHash), !.secret = Item(btoa(password)),
              !.loginTime = Item(toString(t))]

\* lines 182-186: if (loginTime) ... Date.now() - loginTimestamp > sessionTimeout
SessionExpired(s, t) ==
    /\ s.loginTime.has /\ s.loginTime.v # <<>>
    /\ ~parseInt(s.loginTime.v).nan
    /\ t - parseInt(s.loginTime.v).n > sessionTimeout

\* !stored || stored !== ADMIN_HASH
StoredMismatch(s) == ~s.hash.has \/ s.hash.v = <<>> \/ s.hash.v # s.adminHash

\* the effect of lines 171-208, run with isAdmin as rendered
SyncEffect(s, t) ==
    IF AdminHashUnset(s) THEN setIsAdmin(s, FALSE)
    ELSE IF ~s.isAdmin THEN s
    ELSE IF SessionExpired(s, t) THEN RemoveAll(setIsAdmin(s, FALSE))
    ELSE IF StoredMismatch(s) THEN RemoveAll(setIsAdmin(s, FALSE))
    ELSE s

\* lines 310-322
StoredStep(s) ==
    IF ~StoredMismatch(s) THEN setIsAdmin(s, TRUE)
    ELSE IF s.hash.has /\ s.hash.v # <<>> THEN setIsAdmin(RemoveHashAndSecret(s), FALSE)
    ELSE setIsAdmin(s, FALSE)

\* lines 324-363 up to the await of sha256Hex
UrlStep(s) ==
    IF s.url.kind = "logout" THEN [setIsAdmin(RemoveAll(s), FALSE) EXCEPT !.url = NoUrl]
    ELSE IF s.url.kind = "admin" THEN [s EXCEPT !.pending = Append(@, "digest")]
    ELSE s

\* the part of the mount effect that handles the admin session (lines 301-365)
InitEffect(s) ==
    IF AdminHashUnset(s) THEN setIsAdmin(RemoveHashAndSecret(s), FALSE)
    ELSE UrlStep(StoredStep(s))

\* lines 345-362, after the await of sha256Hex(raw)
DigestEffect(s, t) ==
    IF sha256Hex(s.url.raw) = s.adminHash
    THEN [setIsAdmin(StoreLogin(s, s.url.raw, t), TRUE) EXCEPT !.url = NoUrl]
    ELSE [setIsAdmin(RemoveHashAndSecret(s), FALSE) EXCEPT !.url = NoUrl]

\* onLogin of the login dialog (lines 1165-1189)
onLogin(s, password, t) ==
    IF AdminHashUnset(s) THEN s
    ELSE IF sha256Hex(password) = s.adminHash
    THEN setIsAdmin(StoreLogin(s, password, t), TRUE)
    ELSE s

\* the first pending effect of the page, run at time t
RunHead(s, t) ==
    IF Head(s.pending) = "sync"
    THEN SyncEffect([s EXCEPT !.pending = Tail(@), !.seen = s.isAdmin], t)
    ELSE IF Head(s.pending) = "init" THEN InitEffect([s EXCEPT !.pending = Tail(@)])
    ELSE DigestEffect([s EXCEPT !.pending = Tail(@)], t)

\* the page is loaded: useState(false), then both effects after the first render
OpenPage(u) ==
    /\ session.phase = "closed"
    /\ session' = [session EXCEPT !.phase = "open", !.isAdmin = FALSE, !.seen = FALSE,
                                   !.pending = <<"sync", "init">>, !.url = u]
    /\ UNCHANGED <<serverVars, call>>

\* React runs a pending effect, or the digest of the #admin= secret arrives
RunEffect ==
    /\ session.phase = "open"
    /\ session.pending # <<>>
    /\ session' = RunHead(session, now)
    /\ UNCHANGED <<serverVars, call>>

\* the login dialog, opened by the button that shows when isAdmin is false
Login(password) ==
    /\ session.phase = "open"
    /\ session.pending = <<>>
    /\ ~session.isAdmin
    /\ ~AdminHashUnset(session)
    /\ session' = onLogin(session, password, now)
    /\ UNCHANGED <<serverVars, call>>

\* the button of lines 744-756, which shows when isAdmin is true
Logout ==
    /\ session.phase = "open"
    /\ session.pending = <<>>
    /\ session.isAdmin
    /\ session' = setIsAdmin(RemoveAll(session), FALSE)
    /\ UNCHANGED <<serverVars, call>>

\* the page is closed; localStorage stays
ClosePage ==
    /\ session.phase = "open"
    /\ session.pending = <<>>
    /\ session' = [session EXCEPT !.phase = "closed", !.isAdmin = FALSE, !.seen = FALSE,
                                   !.url = NoUrl]
    /\ UNCHANGED <<serverVars, call>>

\* the site is built and deployed with another VITE_ADMIN_HASH
Rebuild(h) ==
    /\ session.phase = "closed"
    /\ h # session.adminHash
    /\ load.builds > 0
    /\ session' = [session EXCEPT !.adminHash = h]
    /\ load' = [load EXCEPT !.builds = @ - 1]
    /\ UNCHANGED <<config, started, now, store, suspiciousIPs, logs, files, reqs, nextSweep, call>>

\* array.slice(start) with an integer start: from the end when start is
\* negative (-0 is 0)
SliceFrom(s, start) ==
    IF start < 0 THEN SubSeq(s, Max(Len(s) + start, 0) + 1, Len(s))
    ELSE SubSeq(s, Min(start, Len(s)) + 1, Len(s))

\* getRecentLogs(limit): this.logs.slice(-limit)
getRecentLogs(lg, limit) == SliceFrom(lg, -limit)

\* getLogsByEvent(event, limit): this.logs.filter(...).slice(-limit)
getLogsByEvent(lg, event, limit) ==
    SliceFrom(SelectSeq(lg, LAMBDA e : e.event = event), -limit)

\* some code calls getRecentLogs(limit)
RecentLogsCall(limit) ==
    /\ call' = [fn |-> "getRecentLogs", limit |-> limit, event |-> <<>>,
                out |-> getRecentLogs(logs, limit)]
    /\ UNCHANGED <<serverVars, session>>

\* some code calls getLogsByEvent(event, limit)
LogsByEventCall(event, limit) ==
    /\ call' = [fn |-> "getLogsByEvent", limit |-> limit, event |-> event,
                out |-> getLogsByEvent(logs, event, limit)]
    /\ UNCHANGED <<serverVars, session>>

\* some code calls auditLogger.log(event, {ip}); a millisecond passes
LogCall(event, ip) ==
    /\ load.ticks > 0
    /\ logs' = log(logs, event, [ip |-> ip], now)
    /\ now' = now + 1
    /\ load' = [load EXCEPT !.ticks = @ - 1]
    /\ UNCHANGED <<config, started, store, suspiciousIPs, files, reqs, nextSweep, session, call>>

(***************************************************************************)
(* The utilities of the browser (src/utils/security.ts)                     *)
(***************************************************************************)
NameLimit == 100

\* the characters /[<>\"'&]/ matches
NameUnsafe == {"<", ">", "\"", "'", "&"}

\* name.replace(/[<>\"'&]/g, '')
RemoveUnsafe(name) == SelectSeq(name, LAMBDA c : c \notin NameUnsafe)

\* sanitizeAppName(name): replace, trim, slice(0, 100)
sanitizeAppName(name) == Prefix(Trim(RemoveUnsafe(name)), NameLimit)

\* lines 215-240 of security.ts: the tests of isInternalUrl on the host name
InternalHost(hostname) ==
    \/ SsrfHost(hostname).isSSRF
    \/ StartsWith(hostname, <<"f","c","0","0",":">>)
    \/ StartsWith(hostname, <<"f","e","8","0",":">>)

\* the try block of isInternalUrl on the parsed URL, FALSE when new URL() threw
InternalOf(urlObj) == urlObj.ok /\ InternalHost(toLowerCase(urlObj.hostname))

isInternalUrl(url) == InternalOf(ParseUrl(WithScheme(url)))

DangerousProtocols == {<<"f","i","l","e",":">>, <<"j","a","v","a","s","c","r","i","p","t",":">>, <<"d","a","t","a",":">>, <<"v","b","s","c","r","i","p","t",":">>}

\* the try block of isSafeUrl on the parsed URL, FALSE when new URL() threw
SafeOf(urlObj, url) ==
    IF ~urlObj.ok THEN FALSE
    ELSE IF urlObj.protocol # <<"h","t","t","p",":">> /\ urlObj.protocol # <<"h","t","t","p","s",":">> THEN FALSE
    ELSE IF isInternalUrl(url) THEN FALSE
    ELSE IF toLowerCase(urlObj.protocol) \in DangerousProtocols THEN FALSE
    ELSE TRUE

isSafeUrl(url) == SafeOf(ParseUrl(WithScheme(url)), url)

\* the URL is put to isSafeUrl, and to the server as the href of the one app
\* of a catalog
CheckUrl ==
    /\ call.fn = "url"
    /\ call' = [call EXCEPT
                   !.fn = "isSafeUrl",
                   !.safe = isSafeUrl(call.scheme \o call.host \o call.path),
                   !.valid = validateCatalogData(<<>>,
                                 CatalogOf(<<>>, <<AppOf(<<"G","P","T">>,
                                                  call.scheme \o call.host \o call.path)>>),
                                 now).valid]
    /\ UNCHANGED <<serverVars, session>>

\* a parsed payload is put to sanitizeJsonData with the default maxDepth
SanitizeCall ==
    /\ call.fn = "payload"
    /\ call' = [call EXCEPT !.fn = "sanitizeJsonData",
                             !.out = sanitizeJsonData(call.x, SanMaxDepth, 0)]
    /\ UNCHANGED <<serverVars, session>>

\* the form of an app is saved: the name goes through sanitizeAppName; saving
\* the app again sanitizes the saved name
SaveAppName ==
    /\ call.fn \in {"name", "sanitizeAppName"}
    /\ call.passes < load.ticks
    /\ call' = [call EXCEPT !.fn = "sanitizeAppName", !.y = sanitizeAppName(call.y),
                             !.passes = @ + 1]
    /\ UNCHANGED <<serverVars, session>>

(***************************************************************************)
(* Specifications of the server                                            *)
(***************************************************************************)
(* check() is called for a request of client c on the limiter, and on a
   second limiter that got the same calls of check() and no call of clear();
   call holds the second limiter (st) and what the two calls returned. *)
LimiterCheck(c) ==
    /\ call.fn = "unswept"
    /\ load.clients[c].posts > 0
    /\ \E out \in {check(Limiter(store, suspiciousIPs, logs),
                         MakeRequest(load.clients[c], <<>>, JNull, 0),
                         PostMax, WindowMs, CatalogPath, now)},
          twin \in {check(call.st, MakeRequest(load.clients[c], <<>>, JNull, 0),
                          PostMax, WindowMs, CatalogPath, now)} :
           /\ store' = out.st.store
           /\ suspiciousIPs' = out.st.suspiciousIPs
           /\ logs' = out.st.logs
           /\ call' = [fn |-> "unswept", st |-> twin.st, res |-> out.res, twin |-> twin.res]
    /\ load' = [load EXCEPT !.clients[c].posts = @ - 1]
    /\ UNCHANGED <<config, started, now, files, reqs, nextSweep, session>>

LimiterChecks == \E c \in DOMAIN load.clients : LimiterCheck(c)

(***************************************************************************)
(* The admin's actions on the catalog (src/App.tsx, AdminPanel.tsx).       *)
(* In these runs session is the page of a logged-in admin:                 *)
(*   isAdmin; secret: the item aijob-admin-secret; catalog: the working    *)
(*   copy [categories, apps], an app being [name, href, category]; draft:  *)
(*   the item aijob-admin-catalog-draft; toast: the notice shown last;     *)
(*   uploads: the calls of uploadCatalogToAPI that have not returned;      *)
(*   uploaded: what the call that returned last gave.                      *)
(***************************************************************************)
CategoryLimit == 50

\* the category of a new app when the catalog has no category ("AI員工")
DefaultCategory == <<"A","I","y","g">>

\* sanitizeCategoryName(name): replace(/[<>"'&]/g, '').trim().slice(0, 50)
sanitizeCategoryName(name) == Prefix(Trim(RemoveUnsafe(name)), CategoryLimit)

\* the try block of isValidUrl on the parsed URL, FALSE when new URL() threw
ValidOf(urlObj) ==
    /\ urlObj.ok
    /\ urlObj.protocol \in {<<"h","t","t","p",":">>, <<"h","t","t","p","s",":">>}
    /\ SsrfHost(toLowerCase(urlObj.hostname)).reason \notin {"localhost", "private-ip"}

isValidUrl(url) == ValidOf(ParseUrl(WithScheme(url)))

\* a.name === b.name && a.href === b.href
SameApp(a, b) == a.name = b.name /\ a.href = b.href

\* the catalog as the value JSON.stringify is given
CatalogJson(c) ==
    CatalogOf([i \in DOMAIN c.categories |-> JStr(c.categories[i])],
              [i \in DOMAIN c.apps |->
                  JObj(<<K(<<"n","a","m","e">>, JStr(c.apps[i].name)),
                         K(<<"h","r","e","f">>, JStr(c.apps[i].href)),
                         K(<<"c","a","t","e","g","o","r","y">>, JStr(c.apps[i].category))>>)])

\* a faulty variant of saveCatalogDraft: nothing is stored
saveCatalogDraftSkipped(s, newCatalog) == s

\* saveCatalogDraft(newCatalog)
saveCatalogDraft(s, newCatalog) ==
    IF ~s.isAdmin THEN s
    ELSE [s EXCEPT !.draft = Item(Stringify(CatalogJson(newCatalog)))]

\* showToast(message): what was done, and whether it is durable, a draft, or
\* was refused
showToast(s, what, kind) == [s EXCEPT !.toast = [what |-> what, kind |-> kind]]

\* setCatalog(newCatalog); saveCatalogDraft(newCatalog); then the call of
\* uploadCatalogToAPI(newCatalog), which returns later
Uploading(s, newCatalog, what) ==
    [saveCatalogDraft([s EXCEPT !.catalog = newCatalog], newCatalog)
        EXCEPT !.uploads = Append(@, [catalog |-> newCatalog, what |-> what])]

\* deleteApp(app) of App.tsx, the admin confirming
deleteApp(s, app) ==
    IF ~s.isAdmin THEN s
    ELSE Uploading(s, [s.catalog EXCEPT !.apps = SelectSeq(@, LAMBDA a : ~SameApp(a, app))],
                   "deleted")

\* the app of the form after the cleaning of lines 1099-1106 / 101-108
SanitizedApp(app) ==
    [name |-> sanitizeAppName(app.name), href |-> Trim(app.href),
     category |-> sanitizeCategoryName(app.category)]

\* the refusals of lines 1081-1094 / 86-98: "none" when the form passes
FormRefusal(app) ==
    IF Trim(app.name) = <<>> THEN "name-empty"
    ELSE IF Trim(app.href) = <<>> THEN "href-empty"
    ELSE IF ~isValidUrl(app.href) THEN "href-invalid"
    ELSE "none"

\* onCreate(app) of the CreateAppModal
onCreate(s, app) ==
    IF FormRefusal(app) # "none" THEN showToast(s, FormRefusal(app), "refused")
    ELSE Uploading(s, [s.catalog EXCEPT !.apps = Append(@, SanitizedApp(app))], "added")

\* handleSaveApp(app) with the app under edit (editingApp)
handleSaveApp(s, app, editingApp) ==
    IF FormRefusal(app) # "none" THEN showToast(s, FormRefusal(app), "refused")
    ELSE IF \E i \in DOMAIN s.catalog.apps : SameApp(s.catalog.apps[i], editingApp)
    THEN Uploading(s, [s.catalog EXCEPT !.apps =
                          [i \in DOMAIN @ |-> IF SameApp(@[i], editingApp)
                                              THEN SanitizedApp(app) ELSE @[i]]],
                   "updated")
    ELSE Uploading(s, [s.catalog EXCEPT !.apps = Append(@, SanitizedApp(app))], "added")

\* catalog.categories.find((c) => c !== category) || catalog.categories[0]
FirstOther(categories, category) ==
    IF \E i \in DOMAIN categories : categories[i] # category
    THEN categories[CHOOSE i \in DOMAIN categories :
                        /\ categories[i] # category
                        /\ \A j \in 1..(i - 1) : categories[j] = category]
    ELSE categories[1]

\* handleDeleteCategory(category), the admin confirming
handleDeleteCategory(s, category) ==
    IF \E i \in DOMAIN s.catalog.apps : s.catalog.apps[i].category = category
    THEN Uploading(s,
                   [categories |-> SelectSeq(s.catalog.categories, LAMBDA c : c # category),
                    apps |-> [i \in DOMAIN s.catalog.apps |->
                                 IF s.catalog.apps[i].category = category
                                 THEN [s.catalog.apps[i] EXCEPT !.category =
                                          FirstOther(s.catalog.categories, category)]
                                 ELSE s.catalog.apps[i]]],
                   "deleted")
    ELSE Uploading(s, [s.catalog EXCEPT !.categories = SelectSeq(@, LAMBDA c : c # category)],
                   "deleted")

\* the edit mode of handleSaveCategory: editingCategory gets the name typed
RenameCategory(s, name, editingCategory) ==
    IF editingCategory = name THEN s
    ELSE IF \E i \in DOMAIN s.catalog.categories : s.catalog.categories[i] = name
    THEN s
    ELSE Uploading(s,
                   [categories |-> [i \in DOMAIN s.catalog.categories |->
                                       IF s.catalog.categories[i] = editingCategory
                                       THEN name ELSE s.catalog.categories[i]],
                    apps |-> [i \in DOMAIN s.catalog.apps |->
                                 IF s.catalog.apps[i].category = editingCategory
                                 THEN [s.catalog.apps[i] EXCEPT !.category = name]
                                 ELSE s.catalog.apps[i]]],
                   "updated")

\* the add mode of handleSaveCategory
AddCategory(s, sanitizedName) ==
    IF \E i \in DOMAIN s.catalog.categories : s.catalog.categories[i] = sanitizedName
    THEN showToast(s, "category-exists", "refused")
    ELSE Uploading(s, [s.catalog EXCEPT !.categories = Append(@, sanitizedName)], "added")

\* handleSaveCategory() with newCategoryName typed and editingCategory set
\* (empty when a category is added)
handleSaveCategory(s, newCategoryName, editingCategory) ==
    IF Trim(newCategoryName) = <<>> THEN s
    ELSE IF sanitizeCategoryName(Trim(newCategoryName)) = <<>>
    THEN showToast(s, "category-invalid", "refused")
    ELSE IF editingCategory # <<>>
    THEN RenameCategory(s, Trim(newCategoryName), editingCategory)
    ELSE AddCategory(s, sanitizeCategoryName(Trim(newCategoryName)))

\* the i-th call of uploadCatalogToAPI returns uploaded, and the handler that
\* awaits it shows its toast
UploadReturned(s, i, uploaded) ==
    showToast([s EXCEPT !.uploads = SubSeq(@, 1, i - 1) \o SubSeq(@, i + 1, Len(@)),
                        !.uploaded = uploaded],
              s.uploads[i].what, IF uploaded THEN "durable" ELSE "draft")

\* what uploadCatalogToAPI may return: false without the secret item, else
\* response.ok of the POST, false when fetch threw
UploadResults(s) == IF s.secret.has THEN BOOLEAN ELSE {FALSE}

\* an admin action: the handler h runs to its await; load.ticks counts them
AdminAction(after) ==
    /\ load.ticks > 0
    /\ session' = after
    /\ load' = [load EXCEPT !.ticks = @ - 1]
    /\ UNCHANGED <<config, started, now, store, suspiciousIPs, logs, files, reqs,
                   nextSweep, call>>

\* the forms the admin may fill in for an app
AppForms ==
    {[name |-> n, href |-> h, category |-> c] :
        n \in {<<"G">>, <<" ">>}, h \in {SafeHref, LoopbackHref},
        c \in {IF session.catalog.categories = <<>> THEN DefaultCategory
               ELSE session.catalog.categories[1]}
              \cup Range(session.catalog.categories)}

\* the names the admin may type for a category
CategoryNames == {<<"A","I">>, <<"D">>, <<"D","<">>, <<"<">>}

DeletesApp == \E i \in DOMAIN session.catalog.apps :
                  AdminAction(deleteApp(session, session.catalog.apps[i]))

CreatesApp == \E app \in AppForms : AdminAction(onCreate(session, app))

\* the editor is opened for a new app (handleCreateApp) or for an app of the
\* catalog (handleEditApp); the select offers the categories of the catalog
SavesApp ==
    \E app \in AppForms :
        \/ AdminAction(handleSaveApp(session, app, [name |-> <<>>, href |-> <<>>,
                                                    category |-> app.category]))
        \/ \E i \in DOMAIN session.catalog.apps :
               AdminAction(handleSaveApp(session, app, session.catalog.apps[i]))

DeletesCategory ==
    \E i \in DOMAIN session.catalog.categories :
        AdminAction(handleDeleteCategory(session, session.catalog.categories[i]))

SavesCategory ==
    \E name \in CategoryNames :
        \/ AdminAction(handleSaveCategory(session, name, <<>>))
        \/ \E i \in DOMAIN session.catalog.categories :
               AdminAction(handleSaveCategory(session, name, session.catalog.categories[i]))

UploadReturns ==
    /\ \E i \in DOMAIN session.uploads, uploaded \in UploadResults(session) :
           session' = UploadReturned(session, i, uploaded)
    /\ UNCHANGED <<serverVars, call>>

(***************************************************************************)
(* The login dialog (AdminLoginModal of src/App.tsx).  In these runs the   *)
(* session also holds: modal, whether the dialog is mounted; its states    *)
(* loginAttempts, lockoutUntil (0 for null) and error; the items           *)
(* aijob-login-attempts (attempts) and aijob-login-lockout (lockout); and  *)
(* checks, the number of calls of onLogin so far.                          *)
(***************************************************************************)
\* if (newAttempts >= 5)
MaxLoginAttempts == 5

\* 15 * 60 * 1000
LockoutMs == 15 * 60 * 1000

\* the part of the mount effect that reads aijob-login-lockout at time t
LockoutRestored(s, t) ==
    IF ~s.lockout.has \/ s.lockout.v = <<>> THEN s
    ELSE IF ~parseInt(s.lockout.v).nan /\ t < parseInt(s.lockout.v).n
    THEN [s EXCEPT !.lockoutUntil = parseInt(s.lockout.v).n]
    ELSE [s EXCEPT !.attempts = NoItem, !.lockout = NoItem]

\* the part of the mount effect that reads aijob-login-attempts
AttemptsRestored(s) ==
    IF s.attempts.has /\ s.attempts.v # <<>> /\ ~parseInt(s.attempts.v).nan
    THEN [s EXCEPT !.loginAttempts = parseInt(s.attempts.v).n]
    ELSE s

\* the dialog is mounted at time t: the useState defaults, then the effect
\* of lines 1729-1746
MountLogin(s, t) ==
    LockoutRestored(AttemptsRestored([s EXCEPT !.modal = TRUE, !.loginAttempts = 0,
                                               !.lockoutUntil = 0, !.error = "none"]), t)

\* handleLogin after onLogin returned false at time t, newAttempts being
\* loginAttempts + 1
LoginFailed(s, t, newAttempts) ==
    IF newAttempts >= MaxLoginAttempts
    THEN [s EXCEPT !.loginAttempts = newAttempts, !.attempts = Item(toString(newAttempts)),
                   !.lockoutUntil = t + LockoutMs, !.lockout = Item(toString(t + LockoutMs)),
                   !.error = "locked"]
    ELSE [s EXCEPT !.loginAttempts = newAttempts, !.attempts = Item(toString(newAttempts)),
                   !.error = "wrong"]

\* handleLogin after onLogin returned true: onLogin closed the dialog
LoginSucceeded(s) ==
    [s EXCEPT !.loginAttempts = 0, !.attempts = NoItem, !.lockout = NoItem, !.modal = FALSE]

\* handleLogin after the call of onLogin, whose outcome is s1
LoginChecked(s1, t) ==
    IF s1.isAdmin THEN LoginSucceeded(s1)
    ELSE LoginFailed(s1, t, s1.loginAttempts + 1)

\* handleLogin(e) with the password typed, at time t
handleLogin(s, password, t) ==
    IF s.lockoutUntil # 0 /\ t < s.lockoutUntil THEN [s EXCEPT !.error = "locked-wait"]
    ELSE IF Trim(password) = <<>> THEN [s EXCEPT !.error = "empty"]
    ELSE LoginChecked(onLogin([s EXCEPT !.checks = @ + 1, !.error = "none"], password, t), t)

\* the admin button opens the dialog
OpenLogin ==
    /\ ~session.isAdmin
    /\ ~session.modal
    /\ session' = MountLogin(session, now)
    /\ UNCHANGED <<serverVars, call>>

\* onClose
CloseLogin ==
    /\ session.modal
    /\ session' = [session EXCEPT !.modal = FALSE]
    /\ UNCHANGED <<serverVars, call>>

\* the form is submitted
SubmitLogin(password) ==
    /\ session.modal
    /\ session' = handleLogin(session, password, now)
    /\ UNCHANGED <<serverVars, call>>

PostArrives ==
    \E c \in DOMAIN load.clients :
        \E h \in load.clients[c].auths, b \in load.clients[c].bodies,
           n \in load.clients[c].lens, delay \in load.delays :
            PostCatalog(c, h, b, n, delay)

GetArrives == \E c \in DOMAIN load.clients : GetCatalog(c)

PostSteps == \E i \in DOMAIN reqs : PostOpen(i) \/ PostWrite(i) \/ PostRename(i)

TimerSteps == \E i \in DOMAIN reqs : TimerFires(i)

GetSteps == \E i \in DOMAIN reqs : GetRead(i)

Pass == \E d \in load.deltas : Tick(d)

\* the number of requests and of clock steps of the workloads
RatePosts == 7

RateGets == 1

RateTicks == 2

(* One client with the secret as its token sends a valid catalog, one request
   at a time, while the clock passes the end of the window and the sweep. *)
RateInit ==
    ServerInit(Config(TheSecret, <<>>, TRUE), TRUE,
               Workload(<<Profile(IpA, Curl, <<>>, {AuthRight}, {1}, {SmallLen},
                                  RatePosts, RateGets)>>,
                        {WindowMs, SweepMs}, RateTicks, {DelayMin}, 1))

RateNext == PostArrives \/ PostSteps \/ GetArrives \/ GetSteps \/ Pass \/ Sweep

SpecRate == RateInit /\ [][RateNext]_vars

\* the configurations of the process: secret, allow-list, NODE_ENV
OnlyA == <<<<"5",".","5",".","*">>>>

Configs ==
    {Config(TheSecret, <<>>, TRUE), Config(TheSecret, OnlyA, TRUE),
     Config(<<>>, <<>>, FALSE), Config(<<>>, OnlyA, FALSE),
     Config(<<>>, <<>>, TRUE), Config(BlankSecret, <<>>, TRUE)}

\* the number of requests of the client that runs into the limit
NoisyPosts == 6

AuthTicks == 1

(* Under each configuration: a client at IpA without credentials that runs
   into the limit, a second client at IpA (another User-Agent, so another
   key) and a client at IpB, each with one request under any of the headers. *)
AuthInit ==
    \E cfg \in Configs :
        ServerInit(cfg, TRUE,
                   Workload(<<Profile(IpA, Curl, <<>>, {AuthNone}, {1}, {SmallLen},
                                      NoisyPosts, 0),
                              Profile(IpA, LongUa1, <<>>,
                                      {AuthNone, AuthBasic, AuthLong, AuthWrong, AuthRight},
                                      {1}, {SmallLen}, 1, 0),
                              Profile(IpB, Curl, <<>>, {AuthRight}, {1}, {SmallLen}, 1, 0)>>,
                            {DelayMax}, AuthTicks, {DelayMin}, 1))

PostNext == PostArrives \/ PostSteps \/ TimerSteps \/ Pass

SpecAuth == AuthInit /\ [][PostNext]_vars

\* the number of requests of the client that writes until the limit
WritePosts == 6

WriteTicks == 1

(* Writes, one request at a time: a client with the secret that sends the
   catalog of one app until the limiter rejects it, a client with a wrong
   token, and a client with the secret whose bodies are the loopback link,
   the shadowed link, the shadowed lists and the shadowed categories. *)
WriteInit ==
    ServerInit(Config(TheSecret, <<>>, TRUE), TRUE,
               Workload(<<Profile(IpA, Curl, <<>>, {AuthRight}, {1}, {SmallLen},
                                  WritePosts, 0),
                          Profile(IpB, Curl, <<>>, {AuthWrong}, {1}, {SmallLen}, 1, 0),
                          Profile(IpB, LongUa1, <<>>, {AuthRight}, {3, 4, 6, 9},
                                  {SmallLen}, 1, 0)>>,
                        {DelayMax}, WriteTicks, {DelayMin}, 1))

SpecWrite == WriteInit /\ [][PostNext]_vars

\* the number of catalogs each of the two writers sends
FilePosts == 1

FileGets == 2

\* the number of requests the server works on at a time
FileInFlight == 3

FileNext == PostArrives \/ PostSteps \/ GetArrives \/ GetSteps

(* Requests in flight together: two clients with the secret, one sending the
   catalog of one app and one the empty catalog, and a reader. *)
FileInit ==
    ServerInit(Config(TheSecret, <<>>, TRUE), TRUE,
               Workload(<<Profile(IpA, Curl, <<>>, {AuthRight}, {1}, {SmallLen},
                                  FilePosts, 0),
                          Profile(IpB, Curl, <<>>, {AuthRight}, {2}, {SmallLen},
                                  FilePosts, 0),
                          Profile(IpB, LongUa1, <<>>, {AuthNone}, {1}, {SmallLen},
                                  0, FileGets)>>,
                        {DelayMax}, 0, {DelayMin}, FileInFlight))

SpecFiles == FileInit /\ [][FileNext]_vars

\* the steps of the clock and the builds of the runs of the browser
ClientTicks == 3

ClientBuilds == 1

\* the values of VITE_ADMIN_HASH: the digest of the secret, of another secret, none
AdminHashes == {sha256Hex(TheSecret), sha256Hex(WrongToken), <<>>}

\* what the address of the page may carry
Urls == {NoUrl, [kind |-> "logout", raw |-> <<>>], [kind |-> "admin", raw |-> TheSecret],
         [kind |-> "admin", raw |-> WrongToken]}

Opens == \E u \in Urls : OpenPage(u)

Logins == \E password \in {TheSecret, WrongToken} : Login(password)

Rebuilds == \E h \in AdminHashes : Rebuild(h)

ClientNext == Opens \/ RunEffect \/ Logins \/ Logout \/ ClosePage \/ Rebuilds \/ Pass

(* The browser alone: a build with the digest of the secret, an empty
   localStorage, no page open; the clock moves by one hour or by 23 hours. *)
ClientInit ==
    /\ config = Config(TheSecret, <<>>, TRUE)
    /\ started = TRUE
    /\ now = 0
    /\ store = EmptyStore
    /\ suspiciousIPs = {}
    /\ logs = <<>>
    /\ files = FilesAtStart(TRUE)
    /\ reqs = <<>>
    /\ nextSweep = SweepMs
    /\ call = NoCall
    /\ load = [Workload(<<>>, {Hour, 23 * Hour}, ClientTicks, {DelayMin}, 0)
                   EXCEPT !.builds = ClientBuilds]
    /\ session = ClosedSession(sha256Hex(TheSecret))

ClientSpec == ClientInit /\ [][ClientNext]_vars

\* the steps of the clock of the runs that start from a stored session
StoredTicks == 2

\* the login timestamps a localStorage may hold: none, the empty string, a
\* string that is no number, and the time 0
StoredTimes == {NoItem, Item(<<>>), Item(<<"a","b","c">>), Item(toString(0))}

\* the digests a localStorage may hold: none, the configured one, another one
StoredHashes == {NoItem, Item(sha256Hex(TheSecret)), Item(sha256Hex(WrongToken))}

(* The browser with a localStorage left by earlier visits or edited by hand:
   any of the digests with any of the timestamps. *)
StoredInit ==
    /\ config = Config(TheSecret, <<>>, TRUE)
    /\ started = TRUE
    /\ now = 0
    /\ store = EmptyStore
    /\ suspiciousIPs = {}
    /\ logs = <<>>
    /\ files = FilesAtStart(TRUE)
    /\ reqs = <<>>
    /\ nextSweep = SweepMs
    /\ call = NoCall
    /\ load = [Workload(<<>>, {Hour, 23 * Hour}, StoredTicks, {DelayMin}, 0)
                   EXCEPT !.builds = ClientBuilds]
    /\ \E h \in StoredHashes, t \in StoredTimes :
          session = [ClosedSession(sha256Hex(TheSecret)) EXCEPT
                        !.hash = h, !.loginTime = t,
                        !.secret = IF h.has THEN Item(btoa(TheSecret)) ELSE NoItem]

StoredSpec == StoredInit /\ [][ClientNext]_vars

\* the number of log() calls of a run, and of those made before it starts
LogCalls == 6

LogsAtStart == 997

LogEvents == {<<"C","A","T","A","L","O","G","_","R","E","A","D">>,
              <<"A","D","M","I","N","_","A","P","I","_","S","U","C","C","E","S","S">>}

\* the buffer after n calls, one a millisecond, none of them evicting
LoggedBefore(n) ==
    [i \in 1..n |-> [timestamp |-> i - 1, event |-> <<"C","A","T","A","L","O","G","_","R","E","A","D">>,
                     details |-> [ip |-> IpA], ip |-> IpA]]

LogCalled == \E event \in LogEvents, ip \in {IpA, <<>>} : LogCall(event, ip)

(* The audit logger alone: the buffer is empty or holds the entries of
   LogsAtStart calls, and log() is called LogCalls times. *)
LogInit ==
    /\ config = Config(TheSecret, <<>>, TRUE)
    /\ started = TRUE
    /\ store = EmptyStore
    /\ suspiciousIPs = {}
    /\ files = FilesAtStart(TRUE)
    /\ reqs = <<>>
    /\ nextSweep = SweepMs
    /\ call = NoCall
    /\ load = Workload(<<>>, {}, LogCalls, {DelayMin}, 0)
    /\ session = NoSession
    /\ \E n \in {0, LogsAtStart} : now = n /\ logs = LoggedBefore(n)

LogSpec == LogInit /\ [][LogCalled]_vars

\* the requests of the client that runs into the limit and then goes on
FlagPosts == 7

FlagTicks == 2

FlagNext == PostArrives \/ PostSteps \/ TimerSteps \/ Pass \/ Sweep

(* Flagged addresses, with and without an allow-list that leaves IpA out: a
   client at IpA with the secret that runs into the limit and goes on, and a
   second client at IpA (another key) with one request under any of three
   headers; the clock moves by a window or by the period of the sweep. *)
FlagInit ==
    \E wl \in {<<>>, <<IpB>>} :
        ServerInit(Config(TheSecret, wl, TRUE), TRUE,
                   Workload(<<Profile(IpA, Curl, <<>>, {AuthRight}, {1}, {SmallLen},
                                      FlagPosts, 0),
                              Profile(IpA, LongUa1, <<>>, {AuthNone, AuthWrong, AuthRight},
                                      {1}, {SmallLen}, 1, 0)>>,
                            {WindowMs, SweepMs}, FlagTicks, {DelayMin}, 1))

SpecFlag == FlagInit /\ [][FlagNext]_vars

\* the requests, the steps of the clock and the length of a step of the runs
\* that watch the timer of verifyAdmin
TimerPosts == 3

TimerTicks == 5

TimerStepMs == 50

TimerInFlight == 2

(* The timer of verifyAdmin: a client with a wrong token, the secret or no
   header; Math.random() gives the shortest or the longest delay; the clock
   moves in steps of 50 ms. *)
TimerInit ==
    ServerInit(Config(TheSecret, <<>>, TRUE), TRUE,
               Workload(<<Profile(IpA, Curl, <<>>, {AuthWrong, AuthRight, AuthNone}, {1},
                                  {SmallLen}, TimerPosts, 0)>>,
                        {TimerStepMs}, TimerTicks, {DelayMin, DelayMax - 1}, TimerInFlight))

SpecTimer == TimerInit /\ [][PostNext]_vars

\* the names typed into the form: up to NameTailLen characters out of
\* NameChars, alone or after 98 letters, saved NamePasses times
NameTailLen == 4

NamePasses == 2

NameChars == {"a", " ", "<"}

NameTails == UNION {[1..n -> NameChars] : n \in 0..NameTailLen}

NameInputs == {Repeat("a", n) \o w : n \in {0, NameLimit - 2}, w \in NameTails}

(* sanitizeAppName alone: a name is typed and the app is saved, then saved
   again. *)
NameInit ==
    /\ config = Config(TheSecret, <<>>, TRUE)
    /\ started = TRUE
    /\ now = 0
    /\ store = EmptyStore
    /\ suspiciousIPs = {}
    /\ logs = <<>>
    /\ files = FilesAtStart(TRUE)
    /\ reqs = <<>>
    /\ nextSweep = SweepMs
    /\ load = Workload(<<>>, {}, NamePasses, {DelayMin}, 0)
    /\ session = NoSession
    /\ \E x \in NameInputs : call = [fn |-> "name", x |-> x, y |-> x, passes |-> 0]

SpecName == NameInit /\ [][SaveAppName]_vars

\* the URLs put to the checks: a scheme, a host and a path
UrlSchemes == {<<"h","t","t","p",":","/","/">>, <<"h","t","t","p","s",":","/","/">>, <<"f","t","p",":","/","/">>, <<"H","T","T","P",":","/","/">>, <<>>}

UrlHosts ==
    {<<"e","x","a","m","p","l","e",".","c","o","m">>,
     <<"l","o","c","a","l","h","o","s","t">>,
     <<"1","2","7",".","0",".","0",".","1">>,
     <<"[",":",":","1","]">>,
     <<"1","0",".","1",".","2",".","3">>,
     <<"1","7","2",".","1","6",".","0",".","1">>,
     <<"1","7","2",".","3","1",".","9",".","9">>,
     <<"1","7","2",".","3","2",".","0",".","1">>,
     <<"1","9","2",".","1","6","8",".","1",".","1">>,
     <<"1","6","9",".","2","5","4",".","1",".","1">>,
     <<"[","f","e","8","0",":",":","1","]">>,
     <<"f","o","o",".","i","n","t","e","r","n","a","l">>,
     <<"f","o","o",".","l","o","c","a","l">>,
     <<"e","x","a"," ","m","p","l","e",".","c","o","m">>,
     <<"1","1",".","1",".","2",".","3">>,
     <<"L","O","C","A","L","H","O","S","T">>}

UrlPaths == {<<"/">>, <<"/","x">>, <<>>}

(* The URL checks alone: a URL made of one of the schemes, hosts and paths is
   checked by the browser's isSafeUrl and by the server's validation. *)
UrlInit ==
    /\ config = Config(TheSecret, <<>>, TRUE)
    /\ started = TRUE
    /\ now = 0
    /\ store = EmptyStore
    /\ suspiciousIPs = {}
    /\ logs = <<>>
    /\ files = FilesAtStart(TRUE)
    /\ reqs = <<>>
    /\ nextSweep = SweepMs
    /\ load = Workload(<<>>, {}, 0, {DelayMin}, 0)
    /\ session = NoSession
    /\ \E sc \in UrlSchemes, h \in UrlHosts, pa \in UrlPaths :
          call = [fn |-> "url", scheme |-> sc, host |-> h, path |-> pa,
                  safe |-> FALSE, valid |-> FALSE]

SpecUrl == UrlInit /\ [][CheckUrl]_vars

\* the payloads put to sanitizeJsonData: a leaf at, over or under one of the
\* structural bounds, inside a number of nested arrays or objects
SanWraps == 11

SanKey(i) == <<"k">> \o toString(i)

SanObjOf(n) == JObj([i \in 1..n |-> [k |-> SanKey(i), v |-> JNum(i)]])

SanLeaves ==
    <<JStr(<<"a">>), JStr(Repeat("a", SanMaxString)), JStr(Repeat("a", SanMaxString + 1)),
      JInf, JNum(1), JNull,
      JArr([i \in 1..SanMaxArray |-> JNum(i)]), JArr([i \in 1..(SanMaxArray + 1) |-> JNum(i)]),
      SanObjOf(SanMaxKeys), SanObjOf(SanMaxKeys + 1),
      JObj(<<[k |-> <<"a","-","b","!">>, v |-> JInf], [k |-> <<"-">>, v |-> JNum(1)]>>)>>

RECURSIVE SanWrap(_, _, _)
SanWrap(v, n, kind) ==
    IF n = 0 THEN v
    ELSE IF kind = "arr" THEN JArr(<<SanWrap(v, n - 1, kind)>>)
    ELSE JObj(<<[k |-> <<"a">>, v |-> SanWrap(v, n - 1, kind)]>>)

(* sanitizeJsonData alone: one of the payloads is sanitized. *)
SanInit ==
    /\ config = Config(TheSecret, <<>>, TRUE)
    /\ started = TRUE
    /\ now = 0
    /\ store = EmptyStore
    /\ suspiciousIPs = {}
    /\ logs = <<>>
    /\ files = FilesAtStart(TRUE)
    /\ reqs = <<>>
    /\ nextSweep = SweepMs
    /\ load = Workload(<<>>, {}, 0, {DelayMin}, 0)
    /\ session = NoSession
    /\ \E leaf \in DOMAIN SanLeaves, n \in 0..SanWraps, kind \in {"arr", "obj"} :
          call = [fn |-> "payload", x |-> SanWrap(SanLeaves[leaf], n, kind),
                  out |-> SanOk(JNull)]

SpecSan == SanInit /\ [][SanitizeCall]_vars

\* the number of requests of the client that writes until the limit, of the
\* reader, and of the steps of the clock
AuditPosts == 6

AuditGets == 1

AuditTicks == 1

AuditNext == PostArrives \/ PostSteps \/ TimerSteps \/ GetArrives \/ GetSteps \/ Pass

(* Every request path that writes to the audit log, one request at a time: a
   client with the secret that writes until the limiter rejects it, a client
   without a token, with a wrong token or with a token that is too long, a
   client with the secret that links to the loopback address, and a reader. *)
AuditInit ==
    ServerInit(Config(TheSecret, <<>>, TRUE), TRUE,
               Workload(<<Profile(IpA, Curl, <<>>, {AuthRight}, {1}, {SmallLen},
                                  AuditPosts, 0),
                          Profile(IpB, Curl, <<>>, {AuthNone, AuthWrong, AuthLong}, {1},
                                  {SmallLen}, 1, 0),
                          Profile(IpB, LongUa1, <<>>, {AuthRight}, {3}, {SmallLen},
                                  1, AuditGets)>>,
                        {DelayMax}, AuditTicks, {DelayMin}, 1))

SpecAudit == AuditInit /\ [][AuditNext]_vars

\* the requests of the burst, the reads beside it and the steps of the clock
BurstPosts == 21

BurstGets == 1

BurstTicks == 1

BurstNext == PostArrives \/ GetArrives \/ GetSteps \/ Pass

(* A burst: one client sends POSTs without a token, one at a time, and reads
   the catalog, while the clock may pass the trailing ten seconds. *)
BurstInit ==
    ServerInit(Config(TheSecret, <<>>, TRUE), TRUE,
               Workload(<<Profile(IpA, Curl, <<>>, {AuthNone}, {1}, {SmallLen},
                                  BurstPosts, BurstGets)>>,
                        {RecentMs}, BurstTicks, {DelayMin}, 1))

SpecBurst == BurstInit /\ [][BurstNext]_vars

\* the requests of each client and the steps of the clock around the sweep
SweepPosts == 2

SweepTicks == 4

SweepNext == PostArrives \/ Pass \/ Sweep

(* Around the sweep: two clients send POSTs without a token while the clock
   moves by a window or by the rest of the sweep's period, so that a sweep
   meets entries of every age. *)
SweepInit ==
    ServerInit(Config(TheSecret, <<>>, TRUE), TRUE,
               Workload(<<Profile(IpA, Curl, <<>>, {AuthNone}, {1}, {SmallLen}, SweepPosts, 0),
                          Profile(IpB, Curl, <<>>, {AuthNone}, {1}, {SmallLen}, SweepPosts, 0)>>,
                        {WindowMs, SweepMs - WindowMs}, SweepTicks, {DelayMin}, 1))

SpecSweep == SweepInit /\ [][SweepNext]_vars

\* the calls of log() and the largest limit of the runs that read the buffer
ReadLogCalls == 3

ReadLimit == 3

ReadsLogs ==
    \E limit \in 0..ReadLimit :
        \/ RecentLogsCall(limit)
        \/ \E event \in LogEvents : LogsByEventCall(event, limit)

ReadNext == LogCalled \/ ReadsLogs

(* The audit logger read: log() is called up to ReadLogCalls times on an empty
   buffer, and the buffer is read with the limits 0..ReadLimit in between. *)
ReadInit ==
    /\ config = Config(TheSecret, <<>>, TRUE)
    /\ started = TRUE
    /\ now = 0
    /\ store = EmptyStore
    /\ suspiciousIPs = {}
    /\ logs = <<>>
    /\ files = FilesAtStart(TRUE)
    /\ reqs = <<>>
    /\ nextSweep = SweepMs
    /\ call = NoCall
    /\ load = Workload(<<>>, {}, ReadLogCalls, {DelayMin}, 0)
    /\ session = NoSession

SpecRead == ReadInit /\ [][ReadNext]_vars

\* the calls of check() for each key and the steps of the clock
TwinChecks == 7

TwinTicks == 3

TwinNext == LimiterChecks \/ Pass \/ Sweep

(* The limiter beside a limiter that is never swept: check() is called for
   two keys while the clock moves by a window or by the sweep's period and
   the sweep runs at any moment after it is due. *)
TwinInit ==
    /\ config = Config(TheSecret, <<>>, TRUE)
    /\ started = TRUE
    /\ now = 0
    /\ store = EmptyStore
    /\ suspiciousIPs = {}
    /\ logs = <<>>
    /\ files = FilesAtStart(TRUE)
    /\ reqs = <<>>
    /\ nextSweep = SweepMs
    /\ load = Workload(<<Profile(IpA, Curl, <<>>, {AuthNone}, {1}, {SmallLen}, TwinChecks, 0),
                         Profile(IpB, Curl, <<>>, {AuthNone}, {1}, {SmallLen}, 1, 0)>>,
                       {WindowMs, SweepMs}, TwinTicks, {DelayMin}, 1)
    /\ session = NoSession
    /\ call = [fn |-> "unswept", st |-> Limiter(EmptyStore, {}, <<>>),
               res |-> NoRl, twin |-> NoRl]

SpecTwin == TwinInit /\ [][TwinNext]_vars

\* the admin actions of a run
PanelActions == 3

\* the catalogs the page starts with: one category with one app, or two
\* categories with an app in each
PanelCatalogs ==
    {[categories |-> <<<<"A","I">>>>,
      apps |-> <<[name |-> <<"G">>, href |-> SafeHref, category |-> <<"A","I">>]>>],
     [categories |-> <<<<"A","I">>, <<"D">>>>,
      apps |-> <<[name |-> <<"G">>, href |-> SafeHref, category |-> <<"A","I">>],
                 [name |-> <<"H">>, href |-> SafeHref, category |-> <<"D">>]>>]}

PanelNext ==
    DeletesApp \/ CreatesApp \/ SavesApp \/ DeletesCategory \/ SavesCategory \/ UploadReturns

(* The admin at work: the page of a logged-in admin holds one of the
   catalogs, the secret item is there or missing, and the admin does up to
   PanelActions actions while the uploads return in any order. *)
PanelInit ==
    /\ config = Config(TheSecret, <<>>, TRUE)
    /\ started = TRUE
    /\ now = 0
    /\ store = EmptyStore
    /\ suspiciousIPs = {}
    /\ logs = <<>>
    /\ files = FilesAtStart(TRUE)
    /\ reqs = <<>>
    /\ nextSweep = SweepMs
    /\ call = NoCall
    /\ load = Workload(<<>>, {}, PanelActions, {DelayMin}, 0)
    /\ \E c \in PanelCatalogs, secret \in {NoItem, Item(btoa(TheSecret))} :
          session = [isAdmin |-> TRUE, secret |-> secret, catalog |-> c, draft |-> NoItem,
                     toast |-> [what |-> "none", kind |-> "none"], uploads |-> <<>>,
                     uploaded |-> FALSE]

PanelSpec == PanelInit /\ [][PanelNext]_vars

\* the calls of onLogin and the steps of the clock of a run
LoginChecks == 6

LoginTicks == 2

LoginPasswords == {TheSecret, WrongToken, <<" ">>}

Submits ==
    /\ session.checks < LoginChecks
    /\ \E password \in LoginPasswords : SubmitLogin(password)

LoginNext == OpenLogin \/ CloseLogin \/ Submits \/ RunEffect \/ Logout \/ Pass

(* The login dialog: a page open with no admin logged in, a build with the
   digest of the secret, an empty localStorage; the clock moves by 5 minutes
   or by the 15 minutes of the lockout. *)
LoginInit ==
    /\ config = Config(TheSecret, <<>>, TRUE)
    /\ started = TRUE
    /\ now = 0
    /\ store = EmptyStore
    /\ suspiciousIPs = {}
    /\ logs = <<>>
    /\ files = FilesAtStart(TRUE)
    /\ reqs = <<>>
    /\ nextSweep = SweepMs
    /\ call = NoCall
    /\ load = Workload(<<>>, {LockoutMs \div 3, LockoutMs}, LoginTicks, {DelayMin}, 0)
    /\ session = [phase |-> "open", isAdmin |-> FALSE, seen |-> FALSE, pending |-> <<>>,
                  url |-> NoUrl, adminHash |-> sha256Hex(TheSecret),
                  hash |-> NoItem, secret |-> NoItem, loginTime |-> NoItem,
                  modal |-> FALSE, loginAttempts |-> 0, lockoutUntil |-> 0,
                  error |-> "none", attempts |-> NoItem, lockout |-> NoItem, checks |-> 0]

LoginSpec == LoginInit /\ [][LoginNext]_vars

(***************************************************************************)
(* The rate limiter (C1, C2).  The windows of a key are told from the       *)
(* arrival times alone: the first request of a key opens a window of        *)
(* WindowMs, and so does the first request that arrives after the window    *)
(* before it ended.                                                         *)
(***************************************************************************)
\* the request went through the rate limiter
Reached(r) == r.rl # NoRl

\* the requests among the first n of reqs that went through the limiter with key k
Limited(k, n) ==
    SelectSeq(SubSeq(reqs, 1, n), LAMBDA r : Reached(r) /\ getKey(r.req) = k)

\* the window the last of the requests rs falls in, and its position in it
RECURSIVE WindowOf(_, _)
WindowOf(rs, n) ==
    IF n = 1 THEN [start |-> rs[1].at, position |-> 1]
    ELSE IF rs[n].at > WindowOf(rs, n - 1).start + WindowMs
         THEN [start |-> rs[n].at, position |-> 1]
         ELSE [start |-> WindowOf(rs, n - 1).start,
               position |-> WindowOf(rs, n - 1).position + 1]

\* the window of request j of reqs
WindowOfRequest(j) ==
    WindowOf(Limited(getKey(reqs[j].req), j), Len(Limited(getKey(reqs[j].req), j)))

\* the limit the route of the request hands to check()
LimitOf(r) == IF r.method = "POST" THEN PostMax ELSE GetMax

(* C1: in a window the limiter allows a request of a key exactly when it is
   among the first maxRequests requests of the key in that window, and a
   rejection carries retryAfter = ceil((resetTime - now) / 1000), which is at
   most windowMs / 1000. *)
RateLimitExact ==
    \A j \in DOMAIN reqs :
        Reached(reqs[j]) =>
            /\ reqs[j].rl.allowed <=> WindowOfRequest(j).position <= LimitOf(reqs[j])
            /\ ~reqs[j].rl.allowed =>
                  /\ reqs[j].status = 429
                  /\ reqs[j].rl.retryAfter =
                        CeilDiv(WindowOfRequest(j).start + WindowMs - reqs[j].at, 1000)
                  /\ reqs[j].rl.retryAfter <= WindowMs \div 1000

\* the fifth POST of a window was allowed and written, the sixth got 429
RateLimitReached ==
    \E i, j \in DOMAIN reqs :
        /\ i < j
        /\ reqs[i].method = "POST" /\ reqs[j].method = "POST"
        /\ getKey(reqs[i].req) = getKey(reqs[j].req)
        /\ WindowOfRequest(i).start = WindowOfRequest(j).start
        /\ WindowOfRequest(i).position = PostMax /\ reqs[i].status = 200
        /\ WindowOfRequest(j).position = PostMax + 1 /\ reqs[j].status = 429
        /\ reqs[j].rl.retryAfter <= 60

\* the key k was rejected by the limiter among the first n requests
WasRejected(k, n) ==
    \E i \in 1..Len(Limited(k, n)) : ~Limited(k, n)[i].rl.allowed

(* C2: when a request of a key that was rejected arrives after the resetTime
   of the key's window, it is allowed and opens a new window: count = 1 and
   resetTime = now + windowMs. *)
WindowResets ==
    [][\A k \in {getKey(reqs'[j].req) : j \in DOMAIN reqs' \ DOMAIN reqs} :
          ( /\ Reached(reqs'[Len(reqs')])
            /\ WasRejected(k, Len(reqs))
            /\ now > WindowOf(Limited(k, Len(reqs)), Len(Limited(k, Len(reqs)))).start + WindowMs )
          => /\ reqs'[Len(reqs')].rl.allowed
             /\ k \in DOMAIN store'
             /\ store'[k].count = 1
             /\ store'[k].resetTime = now + WindowMs]_vars

\* a key that was rejected opened a new window with its latest request
WindowWasReset ==
    \E j \in DOMAIN reqs :
        /\ j = Len(reqs)
        /\ Reached(reqs[j])
        /\ WasRejected(getKey(reqs[j].req), j - 1)
        /\ WindowOfRequest(j).position = 1
        /\ reqs[j].rl.allowed
        /\ getKey(reqs[j].req) \in DOMAIN store
        /\ store[getKey(reqs[j].req)].count = 1
        /\ store[getKey(reqs[j].req)].resetTime = reqs[j].at + WindowMs

(***************************************************************************)
(* verifyAdmin (C3, C4, C5).  The preconditions are stated on the request   *)
(* and on the requests before it: an address is flagged once the limiter    *)
(* rejected a request from it.                                              *)
(***************************************************************************)
\* verifyAdmin ran for the request
Authorizing(r) == r.method = "POST" /\ r.auth # NoAuth

\* (a) the address is on the allow-list, or there is no allow-list
OnAllowList(r) ==
    config.whitelist = <<>> \/ checkIPWhitelist(r.req, config.whitelist)

\* (b) the limiter rejected no request from the address before request j
Unflagged(j) ==
    ~\E i \in 1..(j - 1) :
        /\ ReqIp(reqs[i].req) = ReqIp(reqs[j].req)
        /\ Reached(reqs[i]) /\ ~reqs[i].rl.allowed

\* (c) the server secret is configured
Configured == config.secret # <<>>

\* (d) a Bearer header with a token of at most MaxTokenLen characters
HasCredential(r) ==
    StartsWith(r.req.auth, Bearer) /\ Len(TokenOf(r.req.auth)) <= MaxTokenLen

\* (e) the digest of the token is the digest of the secret
DigestsAgree(r) == sha256Hex(TokenOf(r.req.auth)) = sha256Hex(config.secret)

\* the earliest precondition that fails for request j, and what evaluating
\* the preconditions up to it looks like
FirstFailing(j) ==
    IF ~OnAllowList(reqs[j]) THEN "a"
    ELSE IF ~Unflagged(j) THEN "b"
    ELSE IF ~Configured THEN "c"
    ELSE IF ~HasCredential(reqs[j]) THEN "d"
    ELSE IF ~DigestsAgree(reqs[j]) THEN "e"
    ELSE "none"

EvaluatedUpTo(f) ==
    CASE f = "a" -> <<"a">>
      [] f = "b" -> <<"a", "b">>
      [] f = "c" -> <<"a", "b", "c">>
      [] f = "d" -> <<"a", "b", "c", "d">>
      [] OTHER   -> <<"a", "b", "c", "d", "e">>

\* the status of the rejection of each precondition
RejectionOf(f, r) ==
    CASE f = "a" -> 403
      [] f = "b" -> 429
      [] f = "c" -> 500
      [] f = "d" -> IF StartsWith(r.req.auth, Bearer) THEN 400 ELSE 401
      [] f = "e" -> 403

(* C3: verifyAdmin evaluates (a) allow-list, (b) suspicious flag, (c) secret
   configured, (d) Bearer header and token length, (e) digests, in this order
   and up to the first that fails; the rejection is that of the first failing
   precondition. *)
AuthorizerOrder ==
    \A j \in DOMAIN reqs :
        Authorizing(reqs[j]) =>
            /\ reqs[j].auth.failed = FirstFailing(j)
            /\ reqs[j].auth.checks = EvaluatedUpTo(FirstFailing(j))
            /\ FirstFailing(j) # "none" =>
                  /\ reqs[j].auth.status = RejectionOf(FirstFailing(j), reqs[j])
                  /\ reqs[j].pc = "done" => reqs[j].status = reqs[j].auth.status

\* a request without credentials from a flagged address was rejected for the
\* flag (429), one from an address not flagged for the credentials (401)
AuthorizerOrderSeen ==
    /\ \E j \in DOMAIN reqs :
          /\ Authorizing(reqs[j]) /\ reqs[j].auth.failed = "b"
          /\ ~HasCredential(reqs[j]) /\ reqs[j].status = 429
    /\ \E j \in DOMAIN reqs :
          /\ Authorizing(reqs[j]) /\ reqs[j].auth.failed = "d" /\ reqs[j].status = 401

(* C4, as the code has it: with an empty secret no POST is authorized, none
   reaches the handler or the file system, and every POST that the limiter,
   the allow-list and the suspicious flag let through is answered 500 whatever
   its Authorization header; in production the process does not start when
   the secret is missing or blank. *)
FailClosed ==
    /\ (SecretMissing(config.secret) /\ config.production) => (~started /\ reqs = <<>>)
    /\ config.secret = <<>> =>
          /\ files = FilesAtStart(TRUE)
          /\ \A j \in DOMAIN reqs :
                reqs[j].method = "POST" =>
                    /\ reqs[j].pc = "done"
                    /\ reqs[j].val = NoVal
                    /\ reqs[j].status \in {403, 429, 500}
                    /\ reqs[j].auth.failed # "none"
                    /\ (Reached(reqs[j]) /\ reqs[j].rl.allowed /\ OnAllowList(reqs[j])
                          /\ Unflagged(j))
                        => (reqs[j].status = 500 /\ reqs[j].auth.failed = "c")

\* with an empty secret, requests with and without a Bearer header got 500
FailClosedSeen ==
    /\ config.secret = <<>>
    /\ \E i, j \in DOMAIN reqs :
          /\ reqs[i].req.auth = AuthNone /\ reqs[i].status = 500
          /\ reqs[j].req.auth = AuthRight /\ reqs[j].status = 500
          /\ reqs[i].auth.failed = "c" /\ reqs[j].auth.failed = "c"

(* C4 as stated: with an empty secret every POST is answered with the
   misconfiguration error. *)
AlwaysMisconfigured ==
    config.secret = <<>> =>
        \A j \in DOMAIN reqs :
            (reqs[j].method = "POST" /\ reqs[j].pc = "done") => reqs[j].status = 500

(* C5: a token that reaches the comparison and differs from the secret is
   rejected with 403 and the handler is not called; a token equal to the
   secret is authorized; the loop visits every position of the digests. *)
CredentialCompared ==
    \A j \in DOMAIN reqs :
        (Authorizing(reqs[j]) /\ "e" \in Range(reqs[j].auth.checks)) =>
            /\ reqs[j].auth.visited = DigestLen
            /\ TokenOf(reqs[j].req.auth) # config.secret =>
                  /\ reqs[j].auth.failed = "e"
                  /\ reqs[j].pc \in {"timer", "done"}
                  /\ reqs[j].pc = "done" => reqs[j].status = 403
                  /\ reqs[j].pc = "timer" => reqs[j].sent = 0
                  /\ reqs[j].val = NoVal
            /\ TokenOf(reqs[j].req.auth) = config.secret =>
                  /\ reqs[j].auth.failed = "none"
                  /\ reqs[j].val # NoVal

\* a wrong token got its 403 and a right one went on to the handler
CredentialComparedSeen ==
    /\ \E j \in DOMAIN reqs :
          /\ TokenOf(reqs[j].req.auth) = WrongToken /\ reqs[j].auth.failed = "e"
          /\ reqs[j].status = 403 /\ reqs[j].auth.visited = DigestLen
    /\ \E j \in DOMAIN reqs :
          /\ TokenOf(reqs[j].req.auth) = config.secret /\ reqs[j].auth.failed = "none"
          /\ reqs[j].status = 200

(***************************************************************************)
(* The write of POST /api/catalog (C6, C9)                                  *)
(***************************************************************************)
\* the limiter allowed the request, verifyAdmin called next(), the body is valid
Accepted(r) ==
    /\ r.method = "POST"
    /\ Reached(r) /\ r.rl.allowed
    /\ r.auth # NoAuth /\ r.auth.failed = "none"
    /\ r.val # NoVal /\ r.val.valid

\* the three decisions are taken in order: each only after the one before it
\* let the request through
DecidedInOrder(r) ==
    /\ r.auth # NoAuth => (Reached(r) /\ r.rl.allowed)
    /\ r.val # NoVal => (r.auth # NoAuth /\ r.auth.failed = "none")
    /\ r.pc \in {"open", "write", "rename"} => Accepted(r)

(* C6: the catalog file and the temporary file change only in a file-system
   step of a request that the limiter allowed, verifyAdmin accepted and
   validation found valid, the three in this order; a rejected request
   changes neither file. *)
WriteOnlyWhenAccepted ==
    [][/\ \A j \in DOMAIN reqs' : DecidedInOrder(reqs'[j])
       /\ files' # files =>
             \E i \in DOMAIN reqs :
                 /\ reqs[i].pc \in {"open", "write", "rename"}
                 /\ reqs'[i].pc # reqs[i].pc
                 /\ Accepted(reqs[i])]_vars

\* requests were rejected by the limiter (429), by verifyAdmin (403) and by
\* validation (400), and the catalog file holds what an accepted request sent
WriteSeen ==
    /\ \E j \in DOMAIN reqs : Reached(reqs[j]) /\ ~reqs[j].rl.allowed /\ reqs[j].status = 429
    /\ \E j \in DOMAIN reqs : reqs[j].auth.failed = "e" /\ reqs[j].status = 403
    /\ \E j \in DOMAIN reqs :
          reqs[j].val # NoVal /\ ~reqs[j].val.valid /\ reqs[j].status = 400
    /\ \E j \in DOMAIN reqs :
          /\ Accepted(reqs[j]) /\ reqs[j].status = 200
          /\ files.dir[CatalogFile] # NoFile
          /\ files.data[files.dir[CatalogFile]] = Stringify(BodyOne)
    /\ files.dir[TempFile] = NoFile

\* the limits of the catalog on a document as it is: the lists, their
\* lengths, and for every app a name and a link that passes detectSSRF
AppWithinLimits(app) ==
    /\ Get(app, <<"n","a","m","e">>).t = "str"
    /\ Get(app, <<"n","a","m","e">>).v # <<>>
    /\ Len(Get(app, <<"n","a","m","e">>).v) <= MaxNameLen
    /\ Get(app, <<"h","r","e","f">>).t = "str"
    /\ Get(app, <<"h","r","e","f">>).v # <<>>
    /\ ~detectSSRF(Get(app, <<"h","r","e","f">>).v).isSSRF

WithinLimits(doc) ==
    /\ Get(doc, <<"c","a","t","e","g","o","r","i","e","s">>).t = "arr"
    /\ Get(doc, <<"a","p","p","s">>).t = "arr"
    /\ Len(Get(doc, <<"c","a","t","e","g","o","r","i","e","s">>).v) <= MaxCategories
    /\ Len(Get(doc, <<"a","p","p","s">>).v) <= MaxApps
    /\ \A i \in DOMAIN Get(doc, <<"a","p","p","s">>).v :
          AppWithinLimits(Get(doc, <<"a","p","p","s">>).v[i])

(* C9: the document in the catalog file is within the limits of the catalog:
   at most 50 categories, at most 500 apps, every app with a non-empty name
   of at most 100 characters and a link that passes the SSRF check. *)
PersistedWithinLimits ==
    files.dir[CatalogFile] # NoFile =>
        /\ JsonParse(files.data[files.dir[CatalogFile]]).ok
        /\ WithinLimits(JsonParse(files.data[files.dir[CatalogFile]]).v)

(***************************************************************************)
(* The catalog file under requests in flight together (C7, C8)              *)
(***************************************************************************)
\* the serializations of the catalogs the clients submit and of the deployed one
Serializations == {Stringify(BodyList[b]) : b \in DOMAIN BodyList}

(* C7: at every moment the catalog file is absent or holds the complete
   serialization of one submitted catalog, and a GET that answers 200 returns
   one of these catalogs. *)
CanonicalWhole ==
    /\ files.dir[CatalogFile] # NoFile =>
          files.data[files.dir[CatalogFile]] \in Serializations
    /\ \A g \in DOMAIN reqs :
          (reqs[g].method = "GET" /\ reqs[g].status = 200) =>
              Stringify(reqs[g].payload) \in Serializations

\* what the loop over possiblePaths of GET /api/catalog gives from path i on
\* when the files are f and do not change
RECURSIVE ReadCatalog(_, _)
ReadCatalog(f, i) ==
    IF FsReadFile(f, possiblePaths[i]).ok
       /\ JsonParse(FsReadFile(f, possiblePaths[i]).data).ok
    THEN IF Falsy(JsonParse(FsReadFile(f, possiblePaths[i]).data).v)
         THEN [status |-> 404, payload |-> NoPayload]
         ELSE [status |-> 200,
               payload |-> JsonParse(FsReadFile(f, possiblePaths[i]).data).v]
    ELSE IF i = Len(possiblePaths) THEN [status |-> 404, payload |-> NoPayload]
    ELSE ReadCatalog(f, i + 1)

(* C8: when a POST of a valid catalog C answers 200 and no other request has
   a write of the temporary file before it, a GET of the files as the POST
   left them returns C. *)
RoundTrip ==
    [][\A j \in DOMAIN reqs :
          (/\ reqs[j].pc = "rename"
           /\ reqs'[j].status = 200
           /\ \A i \in DOMAIN reqs \ {j} : reqs[i].pc \notin {"open", "write"})
          => ReadCatalog(files', 1) = [status |-> 200, payload |-> reqs[j].req.body]]_vars

(***************************************************************************)
(* The admin session of the browser (C10)                                   *)
(***************************************************************************)
\* the page is open and no effect is pending
Settled == session.phase = "open" /\ session.pending = <<>>

\* the stored digest is the configured one and the login is less than 24 hours old
StoredSessionValid ==
    /\ session.hash.has /\ session.hash.v = session.adminHash
    /\ session.loginTime.has /\ ~parseInt(session.loginTime.v).nan
    /\ now - parseInt(session.loginTime.v).n < sessionTimeout

(* C10: whenever the page is open and its effects have run, isAdmin is true
   if and only if the stored digest equals the configured digest and
   now - loginTimestamp < 24 hours. *)
AdminIffSessionValid == Settled => (session.isAdmin <=> StoredSessionValid)

\* a step of the open page that invalidates the session: the stored digest
\* goes away, or isAdmin turns false
Invalidated ==
    /\ session.phase = "open" /\ session'.phase = "open"
    /\ \/ session.hash.has /\ ~session'.hash.has
       \/ session.isAdmin /\ ~session'.isAdmin

(* C11: a step that invalidates the session (expiry, digest mismatch, failed
   #admin= login, logout) leaves none of the three stored items and leaves
   isAdmin false. *)
SessionSelfClears ==
    [][Invalidated =>
          /\ ~session'.isAdmin
          /\ ~session'.hash.has /\ ~session'.secret.has /\ ~session'.loginTime.has]_vars

\* the stored session data is corrupt: the login timestamp is missing, empty
\* or no number, or the digest is missing or not the configured one
StoredCorrupt ==
    \/ ~session.loginTime.has
    \/ session.loginTime.v = <<>>
    \/ parseInt(session.loginTime.v).nan
    \/ ~session.hash.has
    \/ session.hash.v # session.adminHash

(* C12: when the page is open and its effects have run, corrupt stored
   session data never goes with isAdmin true. *)
CorruptIsNoSession == (Settled /\ StoredCorrupt) => ~session.isAdmin

(***************************************************************************)
(* The audit buffer (C13)                                                   *)
(***************************************************************************)
\* the buffer holds the entries of the latest min(now, maxLogs) calls, in the
\* order of the calls (the call number n is the one made at time n - 1)
MostRecent(lg, t) ==
    /\ Len(lg) = Min(t, maxLogs)
    /\ \A i \in DOMAIN lg : lg[i].timestamp = t - Len(lg) + i - 1

(* C13: after any sequence of log() calls the buffer holds at most 1000
   entries, the most recent min(n, 1000) in the order they were logged; a
   call keeps every entry but the oldest, which goes only when the buffer
   already holds 1000. *)
AuditBufferBounded ==
    [][/\ Len(logs') <= maxLogs
       /\ MostRecent(logs', now')
       /\ SubSeq(logs', 1, Len(logs') - 1) =
             (IF Len(logs) < maxLogs THEN logs ELSE Tail(logs))]_vars

\* the buffer is full and calls have evicted entries
AuditBufferEvicted ==
    /\ Len(logs) = maxLogs
    /\ now > maxLogs + 1
    /\ logs[1].timestamp = now - maxLogs
    /\ logs[Len(logs)].ip = Unknown

(***************************************************************************)
(* The audit entries of verifyAdmin (C14)                                   *)
(***************************************************************************)
\* the events that belong to no outcome of verifyAdmin, or to another outcome
\* than f: the entry of every request, those of the limiter and the routes,
\* and the entries of the other outcomes
NotSpecificTo(f) ==
    {"ADMIN_API_REQUEST", "RATE_LIMIT_EXCEEDED", "SUSPICIOUS_ACTIVITY_DETECTED",
     "SSRF_ATTEMPT_DETECTED", "CATALOG_UPDATE_SUCCESS", "CATALOG_READ",
     "CATALOG_READ_SUCCESS", "CATALOG_READ_FAILED"}
    \cup (IF f = "a" THEN {} ELSE {"ADMIN_ACCESS_DENIED_IP"})
    \cup (IF f = "b" THEN {} ELSE {"SUSPICIOUS_IP_ATTEMPT"})
    \cup (IF f = "e" THEN {} ELSE {"ADMIN_AUTH_FAILED"})
    \cup (IF f = "none" THEN {} ELSE {"ADMIN_AUTH_SUCCESS"})

\* an entry of the outcome f of request r, with the address and the path
AuditedAs(r, f) ==
    \E i \in DOMAIN logs :
        /\ logs[i].timestamp = r.at
        /\ logs[i].event \notin NotSpecificTo(f)
        /\ logs[i].ip = ReqIp(r.req)
        /\ "path" \in DOMAIN logs[i].details
        /\ logs[i].details.path = CatalogPath

(* C14: from the moment verifyAdmin has decided on a request, and so before
   its response, the audit log holds an entry of that outcome (success,
   forbidden-ip, suspicious-ip, server-misconfigured, missing-credential,
   invalid-credential) with the client address and the path. *)
DecisionsAudited ==
    \A j \in DOMAIN reqs : Authorizing(reqs[j]) => AuditedAs(reqs[j], reqs[j].auth.failed)

(***************************************************************************)
(* The limits of the two routes (C15)                                       *)
(***************************************************************************)
\* the requests of the method and key of request j that reached the limiter
\* no longer than a window before it, request j among them
SameRouteBefore(j) ==
    {i \in 1..j :
        /\ reqs[i].method = reqs[j].method
        /\ Reached(reqs[i])
        /\ getKey(reqs[i].req) = getKey(reqs[j].req)
        /\ reqs[i].at >= reqs[j].at - WindowMs}

(* C15: the limiter rejects a request only when more requests of its own
   route than the limit of that route (5 for POST, 30 for GET) came from its
   key within the window; the requests of the other route do not count. *)
RoutesLimitedApart ==
    \A j \in DOMAIN reqs :
        (Reached(reqs[j]) /\ ~reqs[j].rl.allowed)
            => Cardinality(SameRouteBefore(j)) > LimitOf(reqs[j])

(***************************************************************************)
(* Flagged addresses (C16)                                                  *)
(***************************************************************************)
\* the step appends a POST to reqs
PostArrived == Len(reqs') = Len(reqs) + 1 /\ reqs'[Len(reqs')].method = "POST"

\* the step appends a POST from an address that is flagged before the step
FlaggedPostArrived ==
    PostArrived /\ ReqIp(reqs'[Len(reqs')].req) \in suspiciousIPs

InvalidCredential(r) == r.auth # NoAuth /\ r.auth.failed = "e"

\* at time t a request rejected for its token waits for a timer of at least
\* 100 and less than 200 ms, or got its one 403 when the timer was due
DelayedRejection(r, t) ==
    /\ r.due - r.at >= DelayMin /\ r.due - r.at < DelayMax
    /\ \/ r.pc = "timer" /\ r.sent = 0 /\ r.status = 0
       \/ r.pc = "done" /\ r.sent = 1 /\ r.status = 403 /\ t >= r.due

\* any other request has no timer: it is answered once, or is in the handler
Undelayed(r) ==
    /\ r.due = 0
    /\ \/ r.pc = "done" /\ r.sent = 1
       \/ r.pc \in {"open", "write", "rename"} /\ r.sent = 0 /\ r.auth.failed = "none"

(* C17: a request rejected with invalid-credential gets its 403 from a timer
   of at least 100 and less than 200 ms, not before the timer is due, and
   once; every other outcome of a POST is produced in the step in which the
   request arrives, without a timer. *)
OnlyInvalidCredentialDelayed ==
    [][\A j \in DOMAIN reqs' :
          /\ reqs'[j].method = "POST" =>
                IF InvalidCredential(reqs'[j]) THEN DelayedRejection(reqs'[j], now')
                ELSE Undelayed(reqs'[j])
          /\ (j \in DOMAIN reqs /\ reqs[j].pc = "timer" /\ reqs'[j].pc = "done")
                => now >= reqs[j].at + DelayMin
          /\ (j \notin DOMAIN reqs /\ reqs'[j].method = "POST"
               /\ reqs'[j].auth # NoAuth /\ reqs'[j].auth.failed \notin {"e", "none"})
                => reqs'[j].pc = "done" /\ reqs'[j].sent = 1]_vars

\* a request waits for its timer after the shortest delay has nearly passed,
\* another got its 403 from the timer, a third was rejected at once
DelayedRejectionSeen ==
    /\ \E j \in DOMAIN reqs :
          InvalidCredential(reqs[j]) /\ reqs[j].pc = "timer" /\ now = reqs[j].at + TimerStepMs
    /\ \E j \in DOMAIN reqs :
          InvalidCredential(reqs[j]) /\ reqs[j].pc = "done" /\ reqs[j].status = 403
    /\ \E j \in DOMAIN reqs :
          reqs[j].auth # NoAuth /\ reqs[j].auth.failed = "d" /\ reqs[j].status = 401

(***************************************************************************)
(* sanitizeAppName (C18)                                                    *)
(***************************************************************************)
(* C18: sanitizeAppName is idempotent: sanitizing a name that came out of
   sanitizeAppName gives the same name. *)
SanitizeNameIdempotent ==
    [][(call.fn = "sanitizeAppName" /\ call'.passes = call.passes + 1)
          => call'.y = call.y]_vars

(***************************************************************************)
(* The URL checks (C19)                                                     *)
(***************************************************************************)
\* the decimal number the digits before the first dot of h write, or -1
FirstOctet(h) ==
    IF IndexOf(h, {"."}) > 1 /\ Range(SubSeq(h, 1, IndexOf(h, {"."}) - 1)) \subseteq Range(Digits)
    THEN DigitsValue(SubSeq(h, 1, IndexOf(h, {"."}) - 1), IndexOf(h, {"."}) - 1)
    ELSE -1

\* the host is a dotted-decimal address: digits and dots only
DottedDecimal(h) == h # <<>> /\ Range(h) \subseteq (Range(Digits) \cup {"."})

\* the classes of hosts C19 names, told from the text of the host
ClaimedInternal(h) ==
    \/ toLowerCase(h) \in {<<"l","o","c","a","l","h","o","s","t">>, <<"1","2","7",".","0",".","0",".","1">>, <<"[",":",":","1","]">>}
    \/ DottedDecimal(h) /\ FirstOctet(h) = 10
    \/ DottedDecimal(h) /\ Is172Private(h)
    \/ DottedDecimal(h) /\ StartsWith(h, <<"1","9","2",".","1","6","8",".">>)
    \/ DottedDecimal(h) /\ StartsWith(h, <<"1","6","9",".","2","5","4",".">>)
    \/ StartsWith(toLowerCase(h), <<"[","f","e","8","0",":">>)
    \/ EndsWith(toLowerCase(h), <<".","l","o","c","a","l">>) \/ EndsWith(toLowerCase(h), <<".","i","n","t","e","r","n","a","l">>)

\* the URL of the call is unsafe by C19: it does not parse (its host holds a
\* space), its scheme is neither http nor https, or its host is internal
ClaimedUnsafe ==
    \/ " " \in Range(call.host)
    \/ toLowerCase(call.scheme) \notin {<<"h","t","t","p",":","/","/">>, <<"h","t","t","p","s",":","/","/">>, <<>>}
    \/ ClaimedInternal(call.host)

(* C19: isSafeUrl reports a URL unsafe exactly when it is unparseable, its
   scheme is not http/https or its host is in one of the internal classes,
   and the server's validation rejects a catalog whose app links to a URL of
   these classes. *)
UrlSafetyExact ==
    call.fn = "isSafeUrl" =>
        /\ call.safe = ~ClaimedUnsafe
        /\ ClaimedUnsafe => ~call.valid

(***************************************************************************)
(* Structural sanitization (C20)                                            *)
(***************************************************************************)
RECURSIVE ExceedsBound(_, _)
\* the value v, met at depth d, exceeds one of the structural bounds: it lies
\* deeper than SanMaxDepth, is a string, an array or an object over its bound,
\* or holds such a value
ExceedsBound(v, d) ==
    \/ d > SanMaxDepth
    \/ v.t = "str" /\ Len(v.v) > SanMaxString
    \/ v.t = "arr" /\ Len(v.v) > SanMaxArray
    \/ v.t = "obj" /\ Len(v.v) > SanMaxKeys
    \/ v.t = "arr" /\ \E i \in DOMAIN v.v : ExceedsBound(v.v[i], d + 1)
    \/ v.t = "obj" /\ \E i \in DOMAIN v.v : ExceedsBound(v.v[i].v, d + 1)

RECURSIVE SanitizedValue(_)
\* no non-finite number in v, and every key of v made of letters, digits and _
SanitizedValue(v) ==
    /\ v.t # "inf"
    /\ v.t = "arr" => \A i \in DOMAIN v.v : SanitizedValue(v.v[i])
    /\ v.t = "obj" => \A i \in DOMAIN v.v :
                          Range(v.v[i].k) \subseteq KeyChars /\ SanitizedValue(v.v[i].v)

(* C20: sanitizeJsonData raises an error for exactly the payloads that exceed
   a structural bound (depth over 10, array over 1000 elements, object over
   100 keys, string over 10000 characters), and returns every other payload
   with no non-finite number and with keys of letters, digits and
   underscores only. *)
SanitizeRejectsOverBound ==
    call.fn = "sanitizeJsonData" =>
        /\ ExceedsBound(call.x, 0) <=> ~call.out.ok
        /\ call.out.ok => SanitizedValue(call.out.v)

(***************************************************************************)
(* No credential in the audit log (C21)                                    *)
(***************************************************************************)
\* the text hay holds the text needle
Holds(hay, needle) ==
    \E i \in 1..(Len(hay) - Len(needle) + 1) : SubSeq(hay, i, i + Len(needle) - 1) = needle

\* the fields of an entry that the code fills with a constant of its own (the
\* method, the route, the file tried, the classification) or with a count
Classifying ==
    {"method", "path", "endpoint", "reason", "error", "count", "maxRequests",
     "requestsIn10s", "categories", "apps"}

\* the texts the entry e carries from the request: every other field
TextFields(e) == DOMAIN e.details \ Classifying

\* the credentials presented so far
TokensPresented ==
    {TokenOf(reqs[j].req.auth) : j \in {i \in DOMAIN reqs : StartsWith(reqs[i].req.auth, Bearer)}}

EventsLogged == {logs[i].event : i \in DOMAIN logs}

LandedRecently(j) ==
    {i \in 1..j : /\ getKey(reqs[i].req) = getKey(reqs[j].req)
                  /\ reqs[j].at - reqs[i].at < RecentMs}

\* the limiter wrote the anomaly entry for the j-th request
Signalled(j) ==
    \E i \in DOMAIN logs :
        /\ logs[i].event = "SUSPICIOUS_ACTIVITY_DETECTED"
        /\ logs[i].timestamp = reqs[j].at
        /\ logs[i].ip = ReqIp(reqs[j].req)

(* C23: a request that is at least the 21st of its key within the trailing
   ten seconds has the SUSPICIOUS_ACTIVITY_DETECTED entry written for it,
   whether it is allowed or rejected. *)
AnomalySignalled ==
    \A j \in DOMAIN reqs :
        Cardinality(LandedRecently(j)) > RecentMax => Signalled(j)

(***************************************************************************)
(* The sweep of the limiter (C24)                                          *)
(***************************************************************************)
\* the window of the entry of key k expired more than the grace ago
ExpiredLongAgo(k) == now > store[k].resetTime + ClearGraceMs

(* C24: a sweep removes the entries whose window expired more than 60 seconds
   ago and no other; every other entry is left as it was. *)
SweepRemovesExpired ==
    [][nextSweep' # nextSweep =>
          /\ DOMAIN store' = {k \in DOMAIN store : ~ExpiredLongAgo(k)}
          /\ \A k \in DOMAIN store' : store'[k] = store[k]]_vars

\* a sweep has just run: it removed the entry of one client and left an entry
\* whose window expired exactly 60 seconds before
SweepSeen ==
    /\ nextSweep = now + SweepMs
    /\ \E j \in DOMAIN reqs : getKey(reqs[j].req) \notin DOMAIN store
    /\ \E k \in DOMAIN store : now = store[k].resetTime + ClearGraceMs

(***************************************************************************)
(* Reading the audit log (C25)                                             *)
(***************************************************************************)
\* the last n entries of s, or all of s when it has fewer
LastOf(s, n) == SubSeq(s, Len(s) - Min(n, Len(s)) + 1, Len(s))

\* the entries of lg a read with the arguments of c is about
ReadFrom(lg, c) ==
    IF c.fn = "getLogsByEvent" THEN SelectSeq(lg, LAMBDA e : e.event = c.event) ELSE lg

(* C25: a read of the audit log returns the most recent limit entries (of the
   kind asked for), oldest first, never more than limit, and leaves the
   buffer as it was. *)
ReadsAreProjections ==
    [][(call' # call /\ call'.fn \in {"getRecentLogs", "getLogsByEvent"}) =>
          /\ Len(call'.out) <= call'.limit
          /\ call'.out = LastOf(ReadFrom(logs, call'), call'.limit)
          /\ logs' = logs]_vars

(***************************************************************************)
(* Writes in flight together (C27)                                         *)
(***************************************************************************)
\* the i-th request comes back from its fs.rename in this step
RenameReturns(i) == reqs[i].pc = "rename" /\ reqs'[i].pc = "done"

(* C27: with writes in flight together, every write that reaches its rename
   succeeds, and at that moment the catalog file holds the serialization of
   its own catalog. *)
LastWriterWins ==
    [][\A i \in DOMAIN reqs :
          RenameReturns(i) =>
              /\ reqs'[i].status = 200
              /\ FsReadFile(files', CatalogFile).ok
              /\ FsReadFile(files', CatalogFile).data = Stringify(reqs[i].req.body)]_vars

(***************************************************************************)
(* The sweep is transparent (C28)                                          *)
(***************************************************************************)
(* C28: every call of check() returns on the limiter that is swept what it
   returns on a limiter that got the same calls and was never swept: the
   same decision and the same retryAfter. *)
SweepTransparent == call.fn = "unswept" => call.res = call.twin

\* a sweep has removed an entry that the unswept limiter still holds, and a
\* later call of check() was rejected on both
SweepTransparentSeen ==
    /\ call.fn = "unswept"
    /\ \E k \in DOMAIN call.st.store : k \notin DOMAIN store
    /\ ~call.res.allowed /\ call.res.reason = "rate"

(***************************************************************************)
(* One response for each request (C29)                                     *)
(***************************************************************************)
\* the limiter or verifyAdmin decided to reject the request
RejectionDecided(r) == ~r.rl.allowed \/ r.auth.failed # "none"

\* the handler was not invoked for the request: nothing validated, no file
\* opened, no write under way
HandlerNotInvoked(r) ==
    r.val = NoVal /\ r.fd = NoFile /\ r.pc \notin {"open", "write", "rename"}

(* C29: a POST has got one response when it is over and none before, never
   two; one that is not over waits for the file system or for the timer of
   verifyAdmin; and once the limiter or verifyAdmin has decided to reject it
   the handler is not invoked. *)
OneResponse ==
    \A j \in DOMAIN reqs :
        reqs[j].method = "POST" =>
            /\ reqs[j].sent = (IF reqs[j].pc = "done" THEN 1 ELSE 0)
            /\ reqs[j].pc \in {"done", "timer", "open", "write", "rename"}
            /\ reqs[j].pc = "timer" => reqs[j].auth.delayed
            /\ RejectionDecided(reqs[j]) => HandlerNotInvoked(reqs[j])

\* the limiter's 429, the 403 sent from the timer, a rejection of verifyAdmin
\* sent at once and the handler's 200 have each been the one response
OneResponseSeen ==
    /\ \E j \in DOMAIN reqs : ~reqs[j].rl.allowed /\ reqs[j].status = 429 /\ reqs[j].sent = 1
    /\ \E j \in DOMAIN reqs : reqs[j].auth.delayed /\ reqs[j].status = 403 /\ reqs[j].sent = 1
    /\ \E j \in DOMAIN reqs : reqs[j].auth.failed = "d" /\ reqs[j].sent = 1
    /\ \E j \in DOMAIN reqs : reqs[j].status = 200 /\ reqs[j].sent = 1

(***************************************************************************)
(* C26: the catalog under the admin panel's operations.                    *)
(***************************************************************************)
UniqueCategories(c) ==
    \A i, j \in DOMAIN c.categories : c.categories[i] = c.categories[j] => i = j

Referential(c) ==
    \A i \in DOMAIN c.apps : \E j \in DOMAIN c.categories : c.apps[i].category = c.categories[j]

\* C26: from a catalog whose category names are unique and whose apps all
\* name an existing category, after any sequence of admin-panel operations
\* (save app, add, rename, delete category) the category names of the working
\* catalog are still unique and every app still names a category of the list.
CatalogConsistent ==
    /\ UniqueCategories(session.catalog)
    /\ Referential(session.catalog)

(***************************************************************************)
(* C22: the optimistic update of an admin action and its toast.            *)
(***************************************************************************)
\* the draft item holds the catalog c
DraftHolds(s, c) ==
    /\ s.draft.has
    /\ JsonParse(s.draft.v).ok
    /\ JsonParse(s.draft.v).v = CatalogJson(c)

\* a step in which a handler changed the catalog and called the upload
UploadAttempted == Len(session'.uploads) > Len(session.uploads)

\* a step in which a call of the upload returned
UploadAnswered == Len(session'.uploads) < Len(session.uploads)

LockedOut(s, t) == s.lockout.has /\ t < parseInt(s.lockout.v).n

\* a lockout was set and has run out at time t
LockoutExpired(s, t) ==
    \/ s.lockout.has /\ t >= parseInt(s.lockout.v).n
    \/ s.lockoutUntil # 0 /\ t >= s.lockoutUntil

\* a step in which the password was checked
PasswordChecked == session'.checks = session.checks + 1

\* the fifth failure in a row locks for 15 minutes
LocksAtFifth ==
    (PasswordChecked /\ ~session'.isAdmin /\ session'.loginAttempts = MaxLoginAttempts)
        => LockedOut(session', now + LockoutMs - 1) /\ ~LockedOut(session', now + LockoutMs)

\* while the lockout runs, a submit does not check the password
LockedNeverChecks == LockedOut(session, now) => ~PasswordChecked

\* a successful login resets the count of failures
SuccessResets ==
    (PasswordChecked /\ session'.isAdmin)
        => session'.loginAttempts = 0 /\ ~session'.attempts.has /\ ~session'.lockout.has

\* after the lockout ran out, a failure is the first of five again
FreshAfterExpiry ==
    (PasswordChecked /\ ~session'.isAdmin /\ LockoutExpired(session, now))
        => ~LockedOut(session', now)

\* C30: the dialog locks for 15 minutes at the fifth failed attempt in a row;
\* while the lockout runs a submit never checks the password; a successful
\* login sets the count of failures to 0; and once the lockout has run out
\* the user has five attempts again, so a failed attempt then does not lock.
LoginLockout ==
    [][LocksAtFifth /\ LockedNeverChecks /\ SuccessResets /\ FreshAfterExpiry]_vars

============================================================================
